---------------------------- MODULE Spec2Model ----------------------------
(***************************************************************************)
(* SmartMarks: the chunked, checkpoint-resumable background jobs            *)
(* (categorization, archiving, candidate recalculation, history analysis),  *)
(* the checkpoint store, the rule-based classifier and the URL normalizer.  *)
(*                                                                          *)
(* Strings are sequences of one-character strings, so that substring        *)
(* matching, prefix stripping and sorting are computed and not assumed.     *)
(* A URL string is held as the record of its components (host, pathname,    *)
(* search parameters, fragment); href gives the string it stands for.       *)
(***************************************************************************)
EXTENDS Integers, Sequences, FiniteSets, TLC

(***************************************************************************)
(* Strings                                                                  *)
(***************************************************************************)
\* String.prototype.includes
includes(s, t) ==
  \E i \in 0..(Len(s) - Len(t)) : SubSeq(s, i + 1, i + Len(t)) = t

\* String.prototype.startsWith
startsWith(s, t) ==
  Len(s) >= Len(t) /\ SubSeq(s, 1, Len(t)) = t

UpperChars ==
  <<"A", "B", "C", "D", "E", "F", "G", "H", "I", "J", "K", "L", "M",
    "N", "O", "P", "Q", "R", "S", "T", "U", "V", "W", "X", "Y", "Z">>

LowerChars ==
  <<"a", "b", "c", "d", "e", "f", "g", "h", "i", "j", "k", "l", "m",
    "n", "o", "p", "q", "r", "s", "t", "u", "v", "w", "x", "y", "z">>

lowerChar(c) ==
  IF \E i \in 1..Len(UpperChars) : UpperChars[i] = c
    THEN LowerChars[CHOOSE i \in 1..Len(UpperChars) : UpperChars[i] = c]
    ELSE c

\* String.prototype.toLowerCase
toLowerCase(s) == [i \in 1..Len(s) |-> lowerChar(s[i])]

\* String.prototype.trim (the only white space of the model is the blank)
RECURSIVE trimStart(_)
trimStart(s) ==
  IF s # <<>> /\ Head(s) = " " THEN trimStart(Tail(s)) ELSE s

RECURSIVE trimEnd(_)
trimEnd(s) ==
  IF s # <<>> /\ s[Len(s)] = " " THEN trimEnd(SubSeq(s, 1, Len(s) - 1)) ELSE s

trim(s) == trimEnd(trimStart(s))

\* s.replace(/^www\./, '')
WwwDot == <<"w", "w", "w", ".">>

stripWww(s) ==
  IF startsWith(s, WwwDot) THEN SubSeq(s, Len(WwwDot) + 1, Len(s)) ELSE s

\* s.replace(/\/$/, '')
stripTrailingSlash(s) ==
  IF s # <<>> /\ s[Len(s)] = "/" THEN SubSeq(s, 1, Len(s) - 1) ELSE s

\* The collation order of the characters the model uses (punctuation, then
\* digits, then letters), as String.prototype.localeCompare orders them.
Collation ==
  <<"_", "-", ".", "/", "#", "?", "=", "&", ":", " ",
    "0", "1", "2", "3", "4", "5", "6", "7", "8", "9">> \o LowerChars

rank(c) ==
  IF \E i \in 1..Len(Collation) : Collation[i] = lowerChar(c)
    THEN CHOOSE i \in 1..Len(Collation) : Collation[i] = lowerChar(c)
    ELSE 0

\* a.localeCompare(b) < 0
RECURSIVE localeLess(_, _)
localeLess(a, b) ==
  IF b = <<>> THEN FALSE
  ELSE IF a = <<>> THEN TRUE
  ELSE IF rank(Head(a)) # rank(Head(b)) THEN rank(Head(a)) < rank(Head(b))
  ELSE localeLess(Tail(a), Tail(b))

RECURSIVE concatAll(_)
concatAll(ss) == IF ss = <<>> THEN <<>> ELSE Head(ss) \o concatAll(Tail(ss))

(***************************************************************************)
(* URLs                                                                     *)
(***************************************************************************)
HttpsPrefix == <<"h", "t", "t", "p", "s", ":", "/", "/">>

\* URLSearchParams.toString()
RECURSIVE searchString(_)
searchString(ps) ==
  IF ps = <<>> THEN <<>>
  ELSE Head(ps)[1] \o <<"=">> \o Head(ps)[2]
       \o (IF Tail(ps) = <<>> THEN <<>> ELSE <<"&">> \o searchString(Tail(ps)))

\* The string a URL record stands for (URL.prototype.toString for a valid
\* one, the text itself for one the URL parser rejects).
href(u) ==
  IF ~u.valid THEN u.text
  ELSE HttpsPrefix \o u.host \o u.pathname
       \o (IF u.search = <<>> THEN <<>> ELSE <<"?">> \o searchString(u.search))
       \o u.hash

\* new URL(url): the parser lower-cases the host and gives an empty path "/".
parseURL(u) ==
  [u EXCEPT !.host = toLowerCase(u.host),
            !.pathname = IF u.pathname = <<>> THEN <<"/">> ELSE u.pathname]

mkUrl(host, pathname, search, hash) ==
  [valid |-> TRUE, host |-> host, pathname |-> pathname, search |-> search,
   hash |-> hash, text |-> <<>>]

badUrl(text) ==
  [valid |-> FALSE, host |-> <<>>, pathname |-> <<>>, search |-> <<>>,
   hash |-> <<>>, text |-> text]

trackingParams ==
  { <<"u", "t", "m", "_", "s", "o", "u", "r", "c", "e">>,
    <<"u", "t", "m", "_", "m", "e", "d", "i", "u", "m">>,
    <<"u", "t", "m", "_", "c", "a", "m", "p", "a", "i", "g", "n">>,
    <<"u", "t", "m", "_", "t", "e", "r", "m">>,
    <<"u", "t", "m", "_", "c", "o", "n", "t", "e", "n", "t">>,
    <<"_", "g", "a">>,
    <<"_", "g", "i", "d">>,
    <<"_", "g", "a", "c">>,
    <<"_", "g", "l">>,
    <<"f", "b", "c", "l", "i", "d">>,
    <<"f", "b", "_", "a", "c", "t", "i", "o", "n", "_", "i", "d", "s">>,
    <<"f", "b", "_", "a", "c", "t", "i", "o", "n", "_", "t", "y", "p", "e", "s">>,
    <<"f", "b", "_", "s", "o", "u", "r", "c", "e">>,
    <<"f", "b", "_", "r", "e", "f">>,
    <<"g", "c", "l", "i", "d">>,
    <<"g", "c", "l", "s", "r", "c">>,
    <<"d", "c", "l", "i", "d">>,
    <<"m", "s", "c", "l", "k", "i", "d">>,
    <<"m", "k", "t", "_", "t", "o", "k">>,
    <<"m", "c", "_", "c", "i", "d">>,
    <<"m", "c", "_", "e", "i", "d">>,
    <<"r", "e", "f">>,
    <<"s", "o", "u", "r", "c", "e">>,
    <<"c", "a", "m", "p", "a", "i", "g", "n">>,
    <<"_", "h", "s", "e", "n", "c">>,
    <<"_", "h", "s", "m", "i">>,
    <<"a", "f", "f", "i", "l", "i", "a", "t", "e", "_", "i", "d">>,
    <<"a", "f", "f", "_", "i", "d">> }

\* Array.prototype.sort with ([a], [b]) => a.localeCompare(b): stable.
RECURSIVE insertParam(_, _)
insertParam(sorted, p) ==
  IF sorted = <<>> THEN <<p>>
  ELSE IF localeLess(p[1], Head(sorted)[1]) THEN <<p>> \o sorted
  ELSE <<Head(sorted)>> \o insertParam(Tail(sorted), p)

RECURSIVE sortParams(_)
sortParams(ps) ==
  IF ps = <<>> THEN <<>>
  ELSE insertParam(sortParams(SubSeq(ps, 1, Len(ps) - 1)), ps[Len(ps)])

isTracking(p) == p[1] \in trackingParams

nonEmptyOr(s, d) == IF s = <<>> THEN d ELSE s

\* normalizeURL: the URL for duplicate detection.
normalizeURL(url) ==
  IF ~url.valid THEN url
  ELSE
    LET urlObj == parseURL(url)
        kept == SelectSeq(urlObj.search, LAMBDA p : ~isTracking(p))
    IN  [valid |-> TRUE,
         host |-> toLowerCase(stripWww(urlObj.host)),
         pathname |-> nonEmptyOr(stripTrailingSlash(urlObj.pathname), <<"/">>),
         search |-> sortParams(kept),
         hash |-> IF urlObj.hash # <<>> /\ ~startsWith(urlObj.hash, <<"#", "/">>)
                    THEN <<>> ELSE urlObj.hash,
         text |-> <<>>]

\* btoa is one-to-one: the encoded text is held as the text it encodes.
btoa(s) == [base64 |-> s]

\* generateContentHash
generateContentHash(url) == btoa(href(normalizeURL(url)))

(***************************************************************************)
(* Classifier                                                               *)
(***************************************************************************)
rules ==
  <<
    [category |-> "development",
     domain |->
        <<<<"g", "i", "t", "h", "u", "b", ".", "c", "o", "m">>,
          <<"g", "i", "t", "l", "a", "b", ".", "c", "o", "m">>,
          <<"b", "i", "t", "b", "u", "c", "k", "e", "t", ".", "o", "r", "g">>,
          <<"s", "t", "a", "c", "k", "o", "v", "e", "r", "f", "l", "o", "w", ".", "c", "o", "m">>,
          <<"s", "t", "a", "c", "k", "e", "x", "c", "h", "a", "n", "g", "e", ".", "c", "o", "m">>>>,
     urlKeywords |->
        <<<<"c", "o", "d", "e">>,
          <<"d", "e", "v">>,
          <<"a", "p", "i">>,
          <<"d", "o", "c", "s">>,
          <<"d", "o", "c", "u", "m", "e", "n", "t", "a", "t", "i", "o", "n">>>>,
     titleKeywords |->
        <<<<"p", "r", "o", "g", "r", "a", "m", "m", "i", "n", "g">>,
          <<"c", "o", "d", "e">>,
          <<"d", "e", "v", "e", "l", "o", "p", "e", "r">>,
          <<"a", "p", "i">>,
          <<"t", "u", "t", "o", "r", "i", "a", "l">>,
          <<"d", "o", "c", "u", "m", "e", "n", "t", "a", "t", "i", "o", "n">>>>,
     confidence |-> 90],
    [category |-> "shopping",
     domain |->
        <<<<"a", "m", "a", "z", "o", "n", ".", "c", "o", "m">>,
          <<"e", "b", "a", "y", ".", "c", "o", "m">>,
          <<"w", "a", "l", "m", "a", "r", "t", ".", "c", "o", "m">>,
          <<"t", "a", "r", "g", "e", "t", ".", "c", "o", "m">>,
          <<"e", "t", "s", "y", ".", "c", "o", "m">>,
          <<"a", "l", "i", "e", "x", "p", "r", "e", "s", "s", ".", "c", "o", "m">>,
          <<"a", "l", "i", "b", "a", "b", "a", ".", "c", "o", "m">>>>,
     urlKeywords |->
        <<<<"s", "h", "o", "p">>,
          <<"s", "t", "o", "r", "e">>,
          <<"c", "a", "r", "t">>,
          <<"p", "r", "o", "d", "u", "c", "t">>,
          <<"b", "u", "y">>>>,
     titleKeywords |->
        <<<<"b", "u", "y">>,
          <<"s", "h", "o", "p">>,
          <<"s", "t", "o", "r", "e">>,
          <<"p", "r", "i", "c", "e">>,
          <<"d", "e", "a", "l">>,
          <<"s", "a", "l", "e">>>>,
     confidence |-> 95],
    [category |-> "social",
     domain |->
        <<<<"f", "a", "c", "e", "b", "o", "o", "k", ".", "c", "o", "m">>,
          <<"t", "w", "i", "t", "t", "e", "r", ".", "c", "o", "m">>,
          <<"x", ".", "c", "o", "m">>,
          <<"i", "n", "s", "t", "a", "g", "r", "a", "m", ".", "c", "o", "m">>,
          <<"l", "i", "n", "k", "e", "d", "i", "n", ".", "c", "o", "m">>,
          <<"r", "e", "d", "d", "i", "t", ".", "c", "o", "m">>,
          <<"t", "i", "k", "t", "o", "k", ".", "c", "o", "m">>,
          <<"s", "n", "a", "p", "c", "h", "a", "t", ".", "c", "o", "m">>>>,
     urlKeywords |->
        <<<<"s", "o", "c", "i", "a", "l">>,
          <<"p", "r", "o", "f", "i", "l", "e">>,
          <<"p", "o", "s", "t">>,
          <<"f", "e", "e", "d">>>>,
     titleKeywords |->
        <<<<"s", "o", "c", "i", "a", "l">>,
          <<"s", "h", "a", "r", "e">>,
          <<"f", "o", "l", "l", "o", "w">>,
          <<"f", "r", "i", "e", "n", "d">>>>,
     confidence |-> 95],
    [category |-> "news",
     domain |->
        <<<<"c", "n", "n", ".", "c", "o", "m">>,
          <<"b", "b", "c", ".", "c", "o", "m">>,
          <<"n", "y", "t", "i", "m", "e", "s", ".", "c", "o", "m">>,
          <<"w", "a", "s", "h", "i", "n", "g", "t", "o", "n", "p", "o", "s", "t", ".", "c", "o", "m">>,
          <<"t", "h", "e", "g", "u", "a", "r", "d", "i", "a", "n", ".", "c", "o", "m">>,
          <<"r", "e", "u", "t", "e", "r", "s", ".", "c", "o", "m">>,
          <<"a", "p", "n", "e", "w", "s", ".", "c", "o", "m">>>>,
     urlKeywords |->
        <<<<"n", "e", "w", "s">>,
          <<"a", "r", "t", "i", "c", "l", "e">>,
          <<"b", "r", "e", "a", "k", "i", "n", "g">>,
          <<"l", "a", "t", "e", "s", "t">>>>,
     titleKeywords |->
        <<<<"n", "e", "w", "s">>,
          <<"b", "r", "e", "a", "k", "i", "n", "g">>,
          <<"r", "e", "p", "o", "r", "t">>,
          <<"l", "a", "t", "e", "s", "t">>,
          <<"u", "p", "d", "a", "t", "e">>>>,
     confidence |-> 90],
    [category |-> "entertainment",
     domain |->
        <<<<"y", "o", "u", "t", "u", "b", "e", ".", "c", "o", "m">>,
          <<"n", "e", "t", "f", "l", "i", "x", ".", "c", "o", "m">>,
          <<"h", "u", "l", "u", ".", "c", "o", "m">>,
          <<"s", "p", "o", "t", "i", "f", "y", ".", "c", "o", "m">>,
          <<"t", "w", "i", "t", "c", "h", ".", "t", "v">>,
          <<"i", "m", "d", "b", ".", "c", "o", "m">>>>,
     urlKeywords |->
        <<<<"w", "a", "t", "c", "h">>,
          <<"v", "i", "d", "e", "o">>,
          <<"m", "o", "v", "i", "e">>,
          <<"m", "u", "s", "i", "c">>,
          <<"s", "t", "r", "e", "a", "m">>,
          <<"p", "l", "a", "y">>>>,
     titleKeywords |->
        <<<<"w", "a", "t", "c", "h">>,
          <<"v", "i", "d", "e", "o">>,
          <<"m", "o", "v", "i", "e">>,
          <<"m", "u", "s", "i", "c">>,
          <<"s", "t", "r", "e", "a", "m">>,
          <<"e", "p", "i", "s", "o", "d", "e">>>>,
     confidence |-> 90],
    [category |-> "work",
     domain |->
        <<<<"s", "l", "a", "c", "k", ".", "c", "o", "m">>,
          <<"z", "o", "o", "m", ".", "u", "s">>,
          <<"t", "e", "a", "m", "s", ".", "m", "i", "c", "r", "o", "s", "o", "f", "t", ".", "c", "o", "m">>,
          <<"n", "o", "t", "i", "o", "n", ".", "s", "o">>,
          <<"t", "r", "e", "l", "l", "o", ".", "c", "o", "m">>,
          <<"a", "s", "a", "n", "a", ".", "c", "o", "m">>,
          <<"j", "i", "r", "a", ".", "a", "t", "l", "a", "s", "s", "i", "a", "n", ".", "c", "o", "m">>>>,
     urlKeywords |->
        <<<<"w", "o", "r", "k", "s", "p", "a", "c", "e">>,
          <<"m", "e", "e", "t", "i", "n", "g">>,
          <<"p", "r", "o", "j", "e", "c", "t">>,
          <<"t", "a", "s", "k">>,
          <<"t", "e", "a", "m">>>>,
     titleKeywords |->
        <<<<"m", "e", "e", "t", "i", "n", "g">>,
          <<"p", "r", "o", "j", "e", "c", "t">>,
          <<"t", "a", "s", "k">>,
          <<"t", "e", "a", "m">>,
          <<"w", "o", "r", "k", "s", "p", "a", "c", "e">>,
          <<"c", "o", "l", "l", "a", "b", "o", "r", "a", "t", "i", "o", "n">>>>,
     confidence |-> 90],
    [category |-> "research",
     domain |->
        <<<<"s", "c", "h", "o", "l", "a", "r", ".", "g", "o", "o", "g", "l", "e", ".", "c", "o", "m">>,
          <<"a", "r", "x", "i", "v", ".", "o", "r", "g">>,
          <<"r", "e", "s", "e", "a", "r", "c", "h", "g", "a", "t", "e", ".", "n", "e", "t">>,
          <<"p", "u", "b", "m", "e", "d", ".", "n", "c", "b", "i", ".", "n", "l", "m", ".", "n", "i", "h", ".", "g", "o", "v">>,
          <<"j", "s", "t", "o", "r", ".", "o", "r", "g">>>>,
     urlKeywords |->
        <<<<"r", "e", "s", "e", "a", "r", "c", "h">>,
          <<"p", "a", "p", "e", "r">>,
          <<"s", "t", "u", "d", "y">>,
          <<"j", "o", "u", "r", "n", "a", "l">>,
          <<"a", "r", "t", "i", "c", "l", "e">>>>,
     titleKeywords |->
        <<<<"r", "e", "s", "e", "a", "r", "c", "h">>,
          <<"s", "t", "u", "d", "y">>,
          <<"p", "a", "p", "e", "r">>,
          <<"j", "o", "u", "r", "n", "a", "l">>,
          <<"a", "c", "a", "d", "e", "m", "i", "c">>>>,
     confidence |-> 90],
    [category |-> "finance",
     domain |->
        <<<<"p", "a", "y", "p", "a", "l", ".", "c", "o", "m">>,
          <<"s", "t", "r", "i", "p", "e", ".", "c", "o", "m">>,
          <<"c", "o", "i", "n", "b", "a", "s", "e", ".", "c", "o", "m">>,
          <<"r", "o", "b", "i", "n", "h", "o", "o", "d", ".", "c", "o", "m">>,
          <<"e", "t", "r", "a", "d", "e", ".", "c", "o", "m">>,
          <<"m", "i", "n", "t", ".", "c", "o", "m">>>>,
     urlKeywords |->
        <<<<"b", "a", "n", "k">>,
          <<"p", "a", "y", "m", "e", "n", "t">>,
          <<"f", "i", "n", "a", "n", "c", "e">>,
          <<"i", "n", "v", "e", "s", "t">>,
          <<"s", "t", "o", "c", "k">>,
          <<"c", "r", "y", "p", "t", "o">>>>,
     titleKeywords |->
        <<<<"b", "a", "n", "k">>,
          <<"p", "a", "y", "m", "e", "n", "t">>,
          <<"f", "i", "n", "a", "n", "c", "e">>,
          <<"i", "n", "v", "e", "s", "t">>,
          <<"s", "t", "o", "c", "k">>,
          <<"c", "r", "y", "p", "t", "o">>,
          <<"t", "r", "a", "d", "i", "n", "g">>>>,
     confidence |-> 85],
    [category |-> "health",
     domain |->
        <<<<"w", "e", "b", "m", "d", ".", "c", "o", "m">>,
          <<"h", "e", "a", "l", "t", "h", "l", "i", "n", "e", ".", "c", "o", "m">>,
          <<"m", "a", "y", "o", "c", "l", "i", "n", "i", "c", ".", "o", "r", "g">>,
          <<"n", "i", "h", ".", "g", "o", "v">>,
          <<"c", "d", "c", ".", "g", "o", "v">>>>,
     urlKeywords |->
        <<<<"h", "e", "a", "l", "t", "h">>,
          <<"m", "e", "d", "i", "c", "a", "l">>,
          <<"d", "o", "c", "t", "o", "r">>,
          <<"m", "e", "d", "i", "c", "i", "n", "e">>,
          <<"s", "y", "m", "p", "t", "o", "m">>>>,
     titleKeywords |->
        <<<<"h", "e", "a", "l", "t", "h">>,
          <<"m", "e", "d", "i", "c", "a", "l">>,
          <<"d", "o", "c", "t", "o", "r">>,
          <<"m", "e", "d", "i", "c", "i", "n", "e">>,
          <<"s", "y", "m", "p", "t", "o", "m">>,
          <<"d", "i", "s", "e", "a", "s", "e">>>>,
     confidence |-> 85],
    [category |-> "education",
     domain |->
        <<<<"c", "o", "u", "r", "s", "e", "r", "a", ".", "o", "r", "g">>,
          <<"u", "d", "e", "m", "y", ".", "c", "o", "m">>,
          <<"k", "h", "a", "n", "a", "c", "a", "d", "e", "m", "y", ".", "o", "r", "g">>,
          <<"e", "d", "x", ".", "o", "r", "g">>,
          <<"s", "k", "i", "l", "l", "s", "h", "a", "r", "e", ".", "c", "o", "m">>,
          <<"l", "i", "n", "k", "e", "d", "i", "n", ".", "c", "o", "m", "/", "l", "e", "a", "r", "n", "i", "n", "g">>>>,
     urlKeywords |->
        <<<<"c", "o", "u", "r", "s", "e">>,
          <<"l", "e", "a", "r", "n">>,
          <<"e", "d", "u", "c", "a", "t", "i", "o", "n">>,
          <<"t", "u", "t", "o", "r", "i", "a", "l">>,
          <<"l", "e", "s", "s", "o", "n">>>>,
     titleKeywords |->
        <<<<"c", "o", "u", "r", "s", "e">>,
          <<"l", "e", "a", "r", "n">>,
          <<"e", "d", "u", "c", "a", "t", "i", "o", "n">>,
          <<"t", "u", "t", "o", "r", "i", "a", "l">>,
          <<"l", "e", "s", "s", "o", "n">>,
          <<"t", "r", "a", "i", "n", "i", "n", "g">>>>,
     confidence |-> 90]
  >>

\* extractDomain of categorization.ts
extractDomain(url) ==
  IF ~url.valid THEN <<>> ELSE stripWww(parseURL(url).host)

\* normalizeText
normalizeText(text) == trim(toLowerCase(text))

\* containsKeywords
containsKeywords(text, keywords) ==
  /\ keywords # <<>>
  /\ \E k \in 1..Len(keywords) :
       includes(normalizeText(text), normalizeText(keywords[k]))

\* The domain test of a rule: rule.patterns.domain?.some(d => domain.includes(d))
domainMatches(domain, rule) ==
  \E k \in 1..Len(rule.domain) : includes(domain, rule.domain[k])

\* Confidences are in thousandths: score is in tenths (0.6, 0.2, 0.2) and a
\* rule's confidence in hundredths, and no product the rules allow is within
\* rounding distance of another or of a threshold.
ruleConfidence(url, title, rule) ==
  LET d == IF domainMatches(extractDomain(url), rule) THEN 6 ELSE 0
      u == IF containsKeywords(normalizeText(href(url)), rule.urlKeywords) THEN 2 ELSE 0
      t == IF containsKeywords(normalizeText(title), rule.titleKeywords) THEN 2 ELSE 0
  IN  (d + u + t) * rule.confidence

Uncategorized == "uncategorized"

RECURSIVE bestMatchFrom(_, _, _, _)
bestMatchFrom(url, title, k, best) ==
  IF k > Len(rules) THEN best
  ELSE LET c == ruleConfidence(url, title, rules[k])
       IN  bestMatchFrom(url, title, k + 1,
             IF c > best.confidence
               THEN [category |-> rules[k].category, confidence |-> c]
               ELSE best)

\* categorizeBookmark
categorizeBookmark(url, title) ==
  bestMatchFrom(url, title, 1, [category |-> Uncategorized, confidence |-> 0])

(***************************************************************************)
(* Bounds of the model                                                      *)
(***************************************************************************)
\* Bookmark ids are 1..MaxBookmarks (the ids Chrome gives, in key order).
MaxBookmarks == 3

\* The chunk size of runCategorizationTask, runArchivingTask and candidate
\* recalculation, scaled down from the source's 100 so that a job of
\* MaxBookmarks items takes more than one chunk.
CHUNK_SIZE == 2

\* Handlers that may be in progress at once (their awaits interleave).
MaxInv == 2

\* Checkpoint records ever created (the table's auto-incremented key).
MaxCheckpoints == 2


\* Time is counted in days: Date.now() is `now`, between StartDay and MaxDay.
MaxDay == 4

\* settings.archiveThreshold of the model's settings record, in days.
ArchiveThresholdDays == 1

\* CHUNK_SIZE of historyAnalyzer.ts, scaled from 50 as CHUNK_SIZE is from 100.
HISTORY_CHUNK_SIZE == 1

\* The greatest id chrome.bookmarks.create gives a node.
MaxChromeId == 5

\* A job is not invoked again once its running checkpoint counts this many
\* processed items.
MaxProcessed == 4

\* The rejected operations of one behaviour.
MaxFaults == 1

\* The day the behaviours with candidates and history start on.
Today == 100

\* The calls of trackCandidateUrl of one behaviour.
MaxTracks == 2

\* The visits of one behaviour: onVisited events and bookmark clicks.
MaxVisits == 3

\* The bookmarks the user saves in the options page in one behaviour.
MaxEdits == 1

\* Bookmarks of the archiving job where one invocation meets more duplicates
\* than a chunk holds.
MaxDuplicates == 4

\* The age from which cleanupOldCheckpoints deletes, in days.
SEVEN_DAYS == 7

\* The days that pass in a behaviour with cleanupOldCheckpoints.
MaxIdleDays == 8

(***************************************************************************)
(* The strings of the model                                                 *)
(***************************************************************************)
GithubCom == <<"g", "i", "t", "h", "u", "b", ".", "c", "o", "m">>
ExampleCom == <<"e", "x", "a", "m", "p", "l", "e", ".", "c", "o", "m">>

UrlGithubFoo == mkUrl(GithubCom, <<"/", "f", "o", "o">>, <<>>, <<>>)

UrlExampleA == mkUrl(ExampleCom, <<"/", "a">>, <<>>, <<>>)

UrlExampleATracked ==
  mkUrl(ExampleCom, <<"/", "a">>,
        << << <<"u", "t", "m", "_", "s", "o", "u", "r", "c", "e">>,
              <<"n", "e", "w", "s", "l", "e", "t", "t", "e", "r">> >> >>,
        <<>>)

UrlExampleB == mkUrl(<<"w", "w", "w", ".">> \o ExampleCom, <<"/", "b", "/">>, <<>>, <<>>)

UrlGithubDocs == mkUrl(GithubCom, <<"/", "d", "o", "c", "s">>, <<>>, <<>>)

TitleCode == <<"C", "o", "d", "e">>

UrlChase == mkUrl(<<"c", "h", "a", "s", "e", ".", "c", "o", "m">>, <<"/">>, <<>>, <<>>)

TitlePage == <<"P", "a", "g", "e">>

NewsExampleCom == <<"n", "e", "w", "s", ".">> \o ExampleCom

\* https://news.example.com, as the text without a path
UrlNewsExample == mkUrl(NewsExampleCom, <<>>, <<>>, <<>>)

TitleLatestNews == <<"L", "a", "t", "e", "s", "t", " ", "N", "e", "w", "s">>

NoCategory == ""

\* The ids of db.categories after db.initialize()
CategoryIds ==
  {"development", "shopping", "social", "news", "entertainment", "work",
   "research", "finance", "health", "education", "uncategorized"}

JobTypes == {"categorize", "archive", "historyAnalysis", "candidateRecalculation"}

\* The URLs and titles of the model, and their classification, computed by
\* categorizeBookmark once for the whole state space.
KnownUrls ==
  {UrlGithubFoo, UrlGithubDocs, UrlExampleA, UrlExampleATracked, UrlExampleB, UrlChase,
   UrlNewsExample}

KnownTitles == {TitlePage, TitleCode, ExampleCom, NewsExampleCom, TitleLatestNews}

ClassificationTable ==
  [p \in KnownUrls \X KnownTitles |-> categorizeBookmark(p[1], p[2])] @@ <<>>

\* normalizeURL(url).toString() of the same URLs
NormalizedTable == [url \in KnownUrls |-> href(normalizeURL(url))] @@ <<>>

classification(url, title) ==
  IF <<url, title>> \in DOMAIN ClassificationTable
    THEN ClassificationTable[<<url, title>>]
    ELSE categorizeBookmark(url, title)

(***************************************************************************)
(* State                                                                    *)
(***************************************************************************)
VARIABLES
  bookmarks,         \* db.bookmarks: id -> Bookmark
  categories,        \* db.categories: id -> bookmarkCount
  settings,          \* db.settings.get('local'), settings.exists = FALSE when absent
  checkpoints,       \* db.checkpoints: id -> ProcessingCheckpoint
  nextCheckpointId,  \* the ++id key generator of db.checkpoints
  now,               \* Date.now(), in days
  inv,               \* the handlers in progress: slot -> locals and position
  timers,            \* pending setTimeout continuations per job type
  startupPending,    \* the host restarted and onStartup has not run yet
  hist,              \* history of the current runs (observation only)
  candidates,        \* db.candidateUrls: id -> CandidateUrl
  nextCandidateId,   \* the ++id key generator of db.candidateUrls
  chromeNextId,      \* the id chrome.bookmarks.create gives its next node
  createdEvents,     \* chrome.bookmarks.onCreated events not yet delivered
  historyItems,      \* chrome.history: what chrome.history.search returns
  historyPermission, \* chrome.permissions.contains({permissions: ['history']})
  metadataTasks,     \* fetchAndUpdateMetadata calls that were started
  visitHistory,      \* db.visitHistory: the entries added, in key order
  pending            \* transactions on db.bookmarks created and not yet run

vars ==
  <<bookmarks, categories, settings, checkpoints, nextCheckpointId, now,
    inv, timers, startupPending, hist, candidates, nextCandidateId,
    chromeNextId, createdEvents, historyItems, historyPermission,
    metadataTasks, visitHistory, pending>>

\* The Chrome side: its bookmark tree, its events, its history.
chromeVars == <<chromeNextId, createdEvents, historyItems, historyPermission>>

candVars == <<candidates, nextCandidateId>>

\* The visit tracking of background.ts: db.visitHistory and the order of the
\* transactions its handlers created on db.bookmarks.
visitVars == <<visitHistory, pending>>

Slots == 1..MaxInv

Min(a, b) == IF a < b THEN a ELSE b

\* checkpoint.processedCount++ of recalculateCandidateWindowVisits. The count
\* is kept up to MaxCounted, above every count a run reaches while its
\* continuations are limited by MaxProcessed; no decision of the job reads it.
MaxCounted == MaxProcessed + CHUNK_SIZE

countedUp(n) == Min(n + 1, MaxCounted)

RECURSIVE ascending(_)
ascending(S) ==
  IF S = {} THEN <<>>
  ELSE LET m == CHOOSE x \in S : \A y \in S : x <= y
       IN  <<m>> \o ascending(S \ {m})

\* Collection.limit(n)
limit(seq, n) == SubSeq(seq, 1, Min(n, Len(seq)))

elems(seq) == {seq[i] : i \in 1..Len(seq)}

newBookmark(url, title) ==
  [url |-> url, title |-> title, category |-> NoCategory, lastVisited |-> 0,
   visitCount |-> 0, isPinned |-> FALSE, isArchived |-> FALSE,
   contentHash |-> generateContentHash(url)]

(***************************************************************************)
(* Checkpoint store (checkpoints.ts)                                        *)
(***************************************************************************)
\* The value of `checkpoint` when loadCheckpoint returned null.
NoCheckpoint ==
  [id |-> 0, jobType |-> "none", startTime |-> 0, totalItems |-> 0,
   processedCount |-> 0, status |-> "none", lastProcessedIndex |-> 0,
   hasUrlStats |-> FALSE, urlStats |-> <<>>]

\* The object literal a job creates when it starts: it has no id yet.
freshCheckpoint(jobType, total) ==
  [id |-> 0, jobType |-> jobType, startTime |-> now, totalItems |-> total,
   processedCount |-> 0, status |-> "running", lastProcessedIndex |-> 0,
   hasUrlStats |-> FALSE, urlStats |-> <<>>]

runningIds(table, jobType) ==
  {id \in DOMAIN table :
     table[id].jobType = jobType /\ table[id].status = "running"}

\* loadCheckpoint: the running checkpoint of the type with the greatest
\* startTime (the sort is stable: the lowest id among equal start times).
loadCheckpoint(jobType) ==
  LET ids == runningIds(checkpoints, jobType)
  IN  IF ids = {} THEN NoCheckpoint
      ELSE checkpoints[
             CHOOSE id \in ids :
               \A o \in ids :
                 \/ checkpoints[o].startTime < checkpoints[id].startTime
                 \/ /\ checkpoints[o].startTime = checkpoints[id].startTime
                    /\ id <= o]

\* A saveCheckpoint that adds a record whether or not the object has an id.
saveCheckpointAdds(checkpoint) ==
  LET added == [checkpoint EXCEPT !.id = nextCheckpointId]
  IN  [table |-> [id \in DOMAIN checkpoints \cup {nextCheckpointId} |->
                    IF id = nextCheckpointId THEN added ELSE checkpoints[id]],
       nextId |-> nextCheckpointId + 1,
       object |-> added]

\* saveCheckpoint: Table.update by id when the object has one (no record of
\* that id: nothing is written), Table.add otherwise; add stores the
\* generated key in the object it was given.
\* The result is the table, the key generator and the caller's object.
saveCheckpoint(checkpoint) ==
  IF checkpoint.id # 0
    THEN [table |-> IF checkpoint.id \in DOMAIN checkpoints
                      THEN [checkpoints EXCEPT ![checkpoint.id] = checkpoint]
                      ELSE checkpoints,
          nextId |-> nextCheckpointId,
          object |-> checkpoint]
    ELSE LET added == [checkpoint EXCEPT !.id = nextCheckpointId]
         IN  [table |-> [id \in DOMAIN checkpoints \cup {nextCheckpointId} |->
                           IF id = nextCheckpointId THEN added ELSE checkpoints[id]],
              nextId |-> nextCheckpointId + 1,
              object |-> added]

\* clearCheckpoint: every running checkpoint of the type becomes completed.
clearCheckpoint(jobType) ==
  [id \in DOMAIN checkpoints |->
     IF checkpoints[id].jobType = jobType /\ checkpoints[id].status = "running"
       THEN [checkpoints[id] EXCEPT !.status = "completed"]
       ELSE checkpoints[id]]

\* excludedDomains of addDefaultSettings
DefaultExcludedDomains ==
  { <<"b", "a", "n", "k", "o", "f", "a", "m", "e", "r", "i", "c", "a", ".", "c", "o", "m">>,
    <<"c", "h", "a", "s", "e", ".", "c", "o", "m">>,
    <<"w", "e", "l", "l", "s", "f", "a", "r", "g", "o", ".", "c", "o", "m">>,
    <<"c", "i", "t", "i", "b", "a", "n", "k", ".", "c", "o", "m">>,
    <<"m", "y", "h", "e", "a", "l", "t", "h", "r", "e", "c", "o", "r", "d", ".", "c", "o", "m">>,
    <<"w", "e", "b", "m", "d", ".", "c", "o", "m">>,
    <<"m", "e", "d", "l", "i", "n", "e", "p", "l", "u", "s", ".", "g", "o", "v">>,
    <<"i", "r", "s", ".", "g", "o", "v">>,
    <<"s", "s", "a", ".", "g", "o", "v">>,
    <<"d", "m", "v", ".", "g", "o", "v">> }

\* addDefaultSettings, with the archive threshold of the model.
DefaultSettings ==
  [exists |-> TRUE, autoArchive |-> TRUE, archiveThreshold |-> ArchiveThresholdDays,
   autoBookmarkEnabled |-> TRUE, weeklyVisitThreshold |-> 2,
   monthlyVisitThreshold |-> 3, quarterlyVisitThreshold |-> 5,
   excludedDomains |-> DefaultExcludedDomains, historyAnalyzedAt |-> 0]

\* The value of `candidate` before a candidate is read.
NoCandidate ==
  [id |-> 0, url |-> badUrl(<<>>), normalizedUrl |-> <<>>, title |-> <<>>,
   domain |-> <<>>, firstSeen |-> 0, lastSeen |-> 0, visitCount |-> 0,
   weeklyVisits |-> 0, monthlyVisits |-> 0, quarterlyVisits |-> 0,
   status |-> "none"]

(***************************************************************************)
(* Handlers in progress                                                     *)
(***************************************************************************)
IdleInv ==
  [job |-> "idle", pc |-> "idle", checkpoint |-> NoCheckpoint, chunk |-> <<>>,
   k |-> 0, groups |-> <<>>, g |-> 0, processed |-> 0, t |-> 0, read |-> 0,
   caller |-> "none", faulted |-> {}, settings |-> DefaultSettings,
   candidate |-> NoCandidate, stale |-> FALSE, existing |-> 0, chromeId |-> 0,
   bookmark |-> newBookmark(badUrl(<<>>), <<>>), urlStats |-> <<>>, i |-> 0,
   endIndex |-> 0, url |-> badUrl(<<>>), title |-> <<>>, twins |-> {},
   returned |-> <<>>]

started(job, pc, caller) ==
  [IdleInv EXCEPT !.job = job, !.pc = pc, !.caller = caller]

\* Where a job's return leaves the handler: onStartup awaits
\* runCategorizationTask and goes on to the archiving checkpoint.
returned(L) ==
  IF L.caller = "startup"
    THEN [IdleInv EXCEPT !.job = "startup",
                         !.pc = IF L.job = "categorize" THEN "startupArchive" ELSE "idle"]
    ELSE IdleInv

afterReturn(L) ==
  LET r == returned(L) IN IF r.pc = "idle" THEN IdleInv ELSE r

active(s) == inv[s].job # "idle"

allIdle == \A s \in Slots : ~active(s)

\* The lowest free slot takes the next handler.
freeSlot(s) == ~active(s) /\ \A o \in Slots : o < s => active(o)

\* Each handler in progress may still add one checkpoint record.
roomForCheckpoint ==
  nextCheckpointId + Cardinality({s \in Slots : active(s)}) <= MaxCheckpoints

(***************************************************************************)
(* Queries on db.bookmarks                                                  *)
(***************************************************************************)
\* b => !b.category || b.category === 'uncategorized'
uncategorized(b) == b.category = NoCategory \/ b.category = Uncategorized

\* The filter of runArchivingTask: not pinned, not archived, last visited
\* (a lastVisited of 0 stands for none) more than `threshold` before `at`.
inactive(b, at, threshold) ==
  /\ ~(b.isPinned \/ b.isArchived)
  /\ b.lastVisited # 0
  /\ (at - b.lastVisited) > threshold

notArchived(b) == ~b.isArchived

\* The rows of db.bookmarks each filter keeps, in primary-key order.
uncategorizedIds(table) ==
  ascending({id \in DOMAIN table : uncategorized(table[id])})

inactiveIds(table, at, threshold) ==
  ascending({id \in DOMAIN table : inactive(table[id], at, threshold)})

notArchivedIds(table) ==
  ascending({id \in DOMAIN table : notArchived(table[id])})

\* An update of a category that also writes isArchived as it was when the
\* bookmark was added.
setCategoryAndArchived(table, id, category) ==
  IF id \in DOMAIN table
    THEN [table EXCEPT ![id].category = category, ![id].isArchived = FALSE]
    ELSE table

\* Table.update(id, changes) of a category: no row of that id, no change.
setCategory(table, id, category) ==
  IF id \in DOMAIN table THEN [table EXCEPT ![id].category = category] ELSE table

setArchived(table, id) ==
  IF id \in DOMAIN table THEN [table EXCEPT ![id].isArchived = TRUE] ELSE table

\* findDuplicates: the ids of the given bookmarks grouped by content hash, in
\* the order the Map first saw each hash; only the groups of two and more.
findDuplicates(table, ids) ==
  LET hash(i) == table[i].contentHash
      first(i) == \A j \in elems(ids) : hash(j) = hash(i) => i <= j
      firsts == SelectSeq(ids, first)
      group(i) == SelectSeq(ids, LAMBDA j : hash(j) = hash(i))
      all == [n \in 1..Len(firsts) |-> group(firsts[n])]
  IN  SelectSeq(all, LAMBDA ids2 : Len(ids2) > 1)

\* sort((a, b) => (b.lastVisited || 0) - (a.lastVisited || 0)), a stable
\* sort of bookmark ids by lastVisited, greatest first.
RECURSIVE insertByLastVisited(_, _, _)
insertByLastVisited(table, sorted, id) ==
  IF sorted = <<>> THEN <<id>>
  ELSE IF table[id].lastVisited > table[Head(sorted)].lastVisited
    THEN <<id>> \o sorted
    ELSE <<Head(sorted)>> \o insertByLastVisited(table, Tail(sorted), id)

RECURSIVE sortByLastVisited(_, _)
sortByLastVisited(table, ids) ==
  IF ids = <<>> THEN <<>>
  ELSE insertByLastVisited(table,
         sortByLastVisited(table, SubSeq(ids, 1, Len(ids) - 1)), ids[Len(ids)])

\* The rows of bulkGet(ids) left in the order of the ids, not sorted.
sortedGroupUnsorted(table, ids) ==
  SelectSeq(ids, LAMBDA i : i \in DOMAIN table)

\* bulkGet(ids) without the rows that are gone, sorted as above.
sortedGroup(table, ids) ==
  sortByLastVisited(table, SelectSeq(ids, LAMBDA i : i \in DOMAIN table))

\* duplicateCount: for every duplicate group, its members but one.
RECURSIVE sumLenMinusOne(_)
sumLenMinusOne(gs) ==
  IF gs = <<>> THEN 0 ELSE (Len(Head(gs)) - 1) + sumLenMinusOne(Tail(gs))

(***************************************************************************)
(* A step of a handler is one awaited database operation together with the  *)
(* synchronous code that follows it up to the next awaited operation: the   *)
(* operations of one handler take effect in program order, and the awaits   *)
(* are the only places where another handler's operations come in between.  *)
(***************************************************************************)
dbVars == <<bookmarks, categories, settings, checkpoints, nextCheckpointId>>

setInv(s, L) == inv' = [inv EXCEPT ![s] = L]

\* setTimeout(() => job(), 100)
schedule(jobType) == timers' = [timers EXCEPT ![jobType] = @ + 1]

bump(counts, ids) ==
  [id \in DOMAIN counts |->
     counts[id] + Cardinality({n \in 1..Len(ids) : ids[n] = id})]

(***************************************************************************)
(* runCategorizationTask (background.ts)                                    *)
(***************************************************************************)
confident(result) == result.confidence >= 500

\* The for loop over bookmarksToProcess from item k on, up to its next
\* awaited operation: an item classified below 0.5 only counts as processed;
\* the loop stops at the first item to update, or at the end of the chunk.
RECURSIVE categorizeLoop(_)
categorizeLoop(L) ==
  IF L.k > Len(L.chunk) THEN [L EXCEPT !.pc = "save"]
  ELSE IF confident(classification(L.chunk[L.k].url, L.chunk[L.k].title))
    THEN [L EXCEPT !.pc = "update"]
    ELSE categorizeLoop([L EXCEPT !.k = @ + 1,
                                  !.checkpoint.processedCount = @ + 1])

\* The ids the loop classifies between two positions of a handler.
classifiedBetween(L, M) ==
  LET last == IF M.pc = "update" THEN M.k ELSE M.k - 1
  IN  [n \in 1..(last - L.k + 1) |-> L.chunk[L.k + n - 1].id]

\* let checkpoint = await loadCheckpoint('categorize')
CatLoad(s) ==
  /\ inv[s].job = "categorize" /\ inv[s].pc = "load"
  /\ LET checkpoint == loadCheckpoint("categorize")
     IN  setInv(s, [inv[s] EXCEPT
                      !.checkpoint = checkpoint,
                      !.pc = IF checkpoint = NoCheckpoint THEN "count" ELSE "query"])
  /\ UNCHANGED <<candVars, chromeVars, visitVars, metadataTasks, dbVars, now, timers, startupPending, hist>>

\* No checkpoint: count the uncategorized bookmarks and make the checkpoint
\* object, or return when there are none.
CatCount(s) ==
  /\ inv[s].job = "categorize" /\ inv[s].pc = "count"
  /\ LET found == uncategorizedIds(bookmarks)
     IN  IF found = <<>>
           THEN setInv(s, afterReturn(inv[s])) /\ UNCHANGED hist
           ELSE /\ setInv(s, [inv[s] EXCEPT
                                !.checkpoint = freshCheckpoint("categorize", Len(found)),
                                !.pc = "create"])
                /\ hist' = [hist EXCEPT
                              !.classified = [id \in 1..MaxBookmarks |-> 0],
                              !.eligible = elems(found),
                              !.chunks = 0,
                              !.restarts = {},
                              !.catRunId = 0]
  /\ UNCHANGED <<candVars, chromeVars, visitVars, metadataTasks, dbVars, now, timers, startupPending>>

\* await saveCheckpoint(checkpoint) of the new checkpoint
CatCreate(s) ==
  /\ inv[s].job = "categorize" /\ inv[s].pc = "create"
  /\ LET saved == saveCheckpoint(inv[s].checkpoint)
     IN  /\ checkpoints' = saved.table
         /\ nextCheckpointId' = saved.nextId
         /\ setInv(s, [inv[s] EXCEPT !.checkpoint = saved.object, !.pc = "query"])
         /\ hist' = [hist EXCEPT !.catRunId = saved.object.id]
  /\ UNCHANGED <<candVars, chromeVars, visitVars, metadataTasks, bookmarks, categories, settings, now, timers, startupPending>>

\* The next chunk: the first CHUNK_SIZE uncategorized bookmarks; none left
\* clears the checkpoint, otherwise the loop starts.
CatQuery(s) ==
  /\ inv[s].job = "categorize" /\ inv[s].pc = "query"
  /\ LET ids == limit(uncategorizedIds(bookmarks), CHUNK_SIZE)
         chunk == [n \in 1..Len(ids) |->
                     [id |-> ids[n], url |-> bookmarks[ids[n]].url,
                      title |-> bookmarks[ids[n]].title]]
         L == [inv[s] EXCEPT !.chunk = chunk, !.k = 1]
         M == categorizeLoop(L)
     IN  IF chunk = <<>>
           THEN setInv(s, [inv[s] EXCEPT !.pc = "clear"]) /\ UNCHANGED hist
           ELSE /\ setInv(s, M)
                /\ hist' = [hist EXCEPT
                              !.classified = bump(@, classifiedBetween(L, M))]
  /\ UNCHANGED <<candVars, chromeVars, visitVars, metadataTasks, dbVars, now, timers, startupPending>>

\* await db.bookmarks.update(bookmark.id, {category: result.category})
CatUpdate(s) ==
  /\ inv[s].job = "categorize" /\ inv[s].pc = "update"
  /\ LET b == inv[s].chunk[inv[s].k]
     IN  bookmarks' = setCategory(bookmarks, b.id, classification(b.url, b.title).category)
  /\ setInv(s, [inv[s] EXCEPT !.pc = "incrementGet"])
  /\ UNCHANGED <<candVars, chromeVars, visitVars, metadataTasks, categories, settings, checkpoints, nextCheckpointId, now,
                 timers, startupPending, hist>>

\* incrementCategoryCount: const category = await db.categories.get(categoryId);
\* a category that is not in the table is not counted.
CatIncrementGet(s) ==
  /\ inv[s].job = "categorize" /\ inv[s].pc = "incrementGet"
  /\ LET b == inv[s].chunk[inv[s].k]
         categoryId == classification(b.url, b.title).category
         L == [inv[s] EXCEPT !.k = @ + 1, !.checkpoint.processedCount = @ + 1]
         M == categorizeLoop(L)
     IN  IF categoryId \in DOMAIN categories
           THEN /\ setInv(s, [inv[s] EXCEPT !.read = categories[categoryId],
                                            !.pc = "incrementPut"])
                /\ UNCHANGED hist
           ELSE /\ setInv(s, M)
                /\ hist' = [hist EXCEPT
                              !.classified = bump(@, classifiedBetween(L, M))]
  /\ UNCHANGED <<candVars, chromeVars, visitVars, metadataTasks, dbVars, now, timers, startupPending>>

\* incrementCategoryCount: await db.categories.update(categoryId,
\* {bookmarkCount: category.bookmarkCount + 1}); then checkpoint.processedCount++
\* and the loop goes on.
CatIncrementPut(s) ==
  /\ inv[s].job = "categorize" /\ inv[s].pc = "incrementPut"
  /\ LET b == inv[s].chunk[inv[s].k]
         categoryId == classification(b.url, b.title).category
         L == [inv[s] EXCEPT !.k = @ + 1, !.checkpoint.processedCount = @ + 1]
         M == categorizeLoop(L)
     IN  /\ categories' = [categories EXCEPT ![categoryId] = inv[s].read + 1]
         /\ setInv(s, M)
         /\ hist' = [hist EXCEPT !.classified = bump(@, classifiedBetween(L, M))]
  /\ UNCHANGED <<candVars, chromeVars, visitVars, metadataTasks, bookmarks, settings, checkpoints, nextCheckpointId, now,
                 timers, startupPending>>

\* await saveCheckpoint(checkpoint) after the chunk, then either
\* setTimeout(() => runCategorizationTask(), 100) or on to clearCheckpoint.
CatSave(s) ==
  /\ inv[s].job = "categorize" /\ inv[s].pc = "save"
  /\ LET saved == saveCheckpoint(inv[s].checkpoint)
         more == saved.object.processedCount < saved.object.totalItems
     IN  /\ checkpoints' = saved.table
         /\ nextCheckpointId' = saved.nextId
         /\ IF more
              THEN schedule("categorize") /\ setInv(s, afterReturn(inv[s]))
              ELSE /\ UNCHANGED timers
                   /\ setInv(s, [inv[s] EXCEPT !.checkpoint = saved.object,
                                               !.pc = "clear"])
  /\ hist' = [hist EXCEPT !.chunks = @ + 1]
  /\ UNCHANGED <<candVars, chromeVars, visitVars, metadataTasks, bookmarks, categories, settings, now, startupPending>>

\* await clearCheckpoint('categorize'), and the task returns.
CatClear(s) ==
  /\ inv[s].job = "categorize" /\ inv[s].pc = "clear"
  /\ checkpoints' = clearCheckpoint("categorize")
  /\ setInv(s, afterReturn(inv[s]))
  /\ UNCHANGED <<candVars, chromeVars, visitVars, metadataTasks, bookmarks, categories, settings, nextCheckpointId, now,
                 timers, startupPending, hist>>

(***************************************************************************)
(* runArchivingTask (background.ts)                                         *)
(***************************************************************************)
threshold == settings.archiveThreshold

\* Phase 2, from group g on, up to the next awaited operation: the loop over
\* the duplicate groups ends when they are used up or CHUNK_SIZE duplicates
\* were archived in this invocation; otherwise the group's bulkGet is next.
duplicatesLoop(L) ==
  IF L.g > Len(L.groups) \/ L.processed >= CHUNK_SIZE
    THEN [L EXCEPT !.pc = "save"]
    ELSE [L EXCEPT !.pc = "bulkGet"]

\* The same where only an absent settings record returns.
ArchSettingsWithoutFlag(s) ==
  /\ inv[s].job = "archive" /\ inv[s].pc = "settings"
  /\ IF ~settings.exists
       THEN setInv(s, afterReturn(inv[s]))
       ELSE setInv(s, [inv[s] EXCEPT !.pc = "load"])
  /\ UNCHANGED <<candVars, chromeVars, visitVars, metadataTasks, dbVars, now, timers, startupPending, hist>>

\* const settings = await db.settings.get('local')
ArchSettings(s) ==
  /\ inv[s].job = "archive" /\ inv[s].pc = "settings"
  /\ IF ~settings.exists \/ ~settings.autoArchive
       THEN setInv(s, afterReturn(inv[s]))
       ELSE setInv(s, [inv[s] EXCEPT !.pc = "load"])
  /\ UNCHANGED <<candVars, chromeVars, visitVars, metadataTasks, dbVars, now, timers, startupPending, hist>>

\* let checkpoint = await loadCheckpoint('archive')
ArchLoad(s) ==
  /\ inv[s].job = "archive" /\ inv[s].pc = "load"
  /\ LET checkpoint == loadCheckpoint("archive")
     IN  setInv(s, [inv[s] EXCEPT
                      !.checkpoint = checkpoint,
                      !.pc = IF checkpoint = NoCheckpoint THEN "count" ELSE "inactive"])
  /\ UNCHANGED <<candVars, chromeVars, visitVars, metadataTasks, dbVars, now, timers, startupPending, hist>>

\* No checkpoint: const now = Date.now() and candidatesForArchiving, the
\* inactive bookmarks.
ArchCount(s) ==
  /\ inv[s].job = "archive" /\ inv[s].pc = "count"
  /\ setInv(s, [inv[s] EXCEPT
                  !.read = Len(inactiveIds(bookmarks, now, threshold)),
                  !.pc = "countDuplicates"])
  /\ UNCHANGED <<candVars, chromeVars, visitVars, metadataTasks, dbVars, now, timers,
                 startupPending, hist>>

\* allActive and its duplicate groups: totalToArchive, and the checkpoint
\* object, or return when the total is 0.
ArchCountDuplicates(s) ==
  /\ inv[s].job = "archive" /\ inv[s].pc = "countDuplicates"
  /\ LET duplicateCount ==
           sumLenMinusOne(findDuplicates(bookmarks, notArchivedIds(bookmarks)))
         totalToArchive == inv[s].read + duplicateCount
     IN  IF totalToArchive = 0
           THEN setInv(s, afterReturn(inv[s])) /\ UNCHANGED hist
           ELSE /\ setInv(s, [inv[s] EXCEPT
                                !.checkpoint = freshCheckpoint("archive", totalToArchive),
                                !.pc = "create"])
                /\ hist' = [hist EXCEPT !.archStart = bookmarks,
                                        !.archClean = TRUE,
                                        !.archRunId = 0]
  /\ UNCHANGED <<candVars, chromeVars, visitVars, metadataTasks, dbVars, now, timers,
                 startupPending>>

\* await saveCheckpoint(checkpoint) of the new checkpoint
ArchCreate(s) ==
  /\ inv[s].job = "archive" /\ inv[s].pc = "create"
  /\ LET saved == saveCheckpoint(inv[s].checkpoint)
     IN  /\ checkpoints' = saved.table
         /\ nextCheckpointId' = saved.nextId
         /\ setInv(s, [inv[s] EXCEPT !.checkpoint = saved.object, !.pc = "inactive"])
         /\ hist' = [hist EXCEPT !.archRunId = saved.object.id]
  /\ UNCHANGED <<candVars, chromeVars, visitVars, metadataTasks, bookmarks, categories, settings, now, timers, startupPending>>

\* Phase 1: const now = Date.now() and the query of the inactive chunk.
ArchInactive(s) ==
  /\ inv[s].job = "archive" /\ inv[s].pc = "inactive"
  /\ LET chunk == limit(inactiveIds(bookmarks, now, threshold), CHUNK_SIZE)
     IN  setInv(s, [inv[s] EXCEPT
                      !.t = now, !.chunk = chunk, !.k = 1,
                      !.pc = IF chunk = <<>> THEN "duplicates" ELSE "archiveInactive"])
  /\ UNCHANGED <<candVars, chromeVars, visitVars, metadataTasks, dbVars, now, timers, startupPending, hist>>

\* await db.bookmarks.update(bookmark.id, {isArchived: true});
\* checkpoint.processedCount++
ArchArchiveInactive(s) ==
  /\ inv[s].job = "archive" /\ inv[s].pc = "archiveInactive"
  /\ LET id == inv[s].chunk[inv[s].k]
         last == inv[s].k = Len(inv[s].chunk)
     IN  /\ bookmarks' = setArchived(bookmarks, id)
         /\ setInv(s, [inv[s] EXCEPT
                         !.k = @ + 1,
                         !.checkpoint.processedCount = @ + 1,
                         !.pc = IF ~last THEN "archiveInactive"
                                ELSE IF Len(inv[s].chunk) < CHUNK_SIZE THEN "duplicates"
                                ELSE "save"])
         /\ hist' = [hist EXCEPT !.archived = @ \cup {id}]
  /\ UNCHANGED <<candVars, chromeVars, visitVars, metadataTasks, categories, settings, checkpoints, nextCheckpointId, now,
                 timers, startupPending>>

\* Phase 2: the bookmarks that are not archived, grouped by findDuplicates.
ArchDuplicates(s) ==
  /\ inv[s].job = "archive" /\ inv[s].pc = "duplicates"
  /\ setInv(s, duplicatesLoop(
                 [inv[s] EXCEPT
                    !.groups = findDuplicates(bookmarks, notArchivedIds(bookmarks)),
                    !.g = 1, !.processed = 0]))
  /\ UNCHANGED <<candVars, chromeVars, visitVars, metadataTasks, dbVars, now, timers, startupPending, hist>>

\* const bookmarksToCheck = await db.bookmarks.bulkGet(ids), sorted by
\* lastVisited, greatest first; all but the first are to be archived.
ArchBulkGet(s) ==
  /\ inv[s].job = "archive" /\ inv[s].pc = "bulkGet"
  /\ LET sorted == sortedGroup(bookmarks, inv[s].groups[inv[s].g])
     IN  IF Len(sorted) > 1
           THEN setInv(s, [inv[s] EXCEPT !.chunk = sorted, !.k = 2,
                                         !.pc = "archiveDuplicate"])
           ELSE setInv(s, duplicatesLoop([inv[s] EXCEPT !.chunk = sorted, !.g = @ + 1]))
  /\ UNCHANGED <<candVars, chromeVars, visitVars, metadataTasks, dbVars, now, timers, startupPending, hist>>

\* await db.bookmarks.update(sorted[i].id, {isArchived: true});
\* checkpoint.processedCount++; duplicatesProcessed++
ArchArchiveDuplicate(s) ==
  /\ inv[s].job = "archive" /\ inv[s].pc = "archiveDuplicate"
  /\ LET id == inv[s].chunk[inv[s].k]
         L == [inv[s] EXCEPT !.k = @ + 1,
                             !.checkpoint.processedCount = @ + 1,
                             !.processed = @ + 1]
     IN  /\ bookmarks' = setArchived(bookmarks, id)
         /\ setInv(s, IF L.k <= Len(L.chunk) THEN L
                      ELSE duplicatesLoop([L EXCEPT !.g = @ + 1]))
         /\ hist' = [hist EXCEPT !.archived = @ \cup {id}]
  /\ UNCHANGED <<candVars, chromeVars, visitVars, metadataTasks, categories, settings, checkpoints, nextCheckpointId, now,
                 timers, startupPending>>

\* await saveCheckpoint(checkpoint) after the chunk
ArchSave(s) ==
  /\ inv[s].job = "archive" /\ inv[s].pc = "save"
  /\ LET saved == saveCheckpoint(inv[s].checkpoint)
     IN  /\ checkpoints' = saved.table
         /\ nextCheckpointId' = saved.nextId
         /\ setInv(s, [inv[s] EXCEPT !.checkpoint = saved.object, !.pc = "remaining"])
  /\ UNCHANGED <<candVars, chromeVars, visitVars, metadataTasks, bookmarks, categories, settings, now, timers, startupPending, hist>>

\* stillHasInactive, with the `now` of phase 1
ArchRemaining(s) ==
  /\ inv[s].job = "archive" /\ inv[s].pc = "remaining"
  /\ setInv(s, [inv[s] EXCEPT
                  !.read = Len(inactiveIds(bookmarks, inv[s].t, threshold)),
                  !.pc = "remainingDuplicates"])
  /\ UNCHANGED <<candVars, chromeVars, visitVars, metadataTasks, dbVars, now, timers,
                 startupPending, hist>>

\* allActiveNow and remainingDuplicates: more work schedules the next
\* invocation, none goes on to clearCheckpoint.
ArchRemainingDuplicates(s) ==
  /\ inv[s].job = "archive" /\ inv[s].pc = "remainingDuplicates"
  /\ LET stillHasInactive == inv[s].read
         hasDuplicates ==
           findDuplicates(bookmarks, notArchivedIds(bookmarks)) # <<>>
     IN  IF stillHasInactive > 0 \/ hasDuplicates
           THEN schedule("archive") /\ setInv(s, afterReturn(inv[s]))
           ELSE UNCHANGED timers /\ setInv(s, [inv[s] EXCEPT !.pc = "clear"])
  /\ UNCHANGED <<candVars, chromeVars, visitVars, metadataTasks, dbVars, now,
                 startupPending, hist>>

\* await clearCheckpoint('archive'), and the task returns.
ArchClear(s) ==
  /\ inv[s].job = "archive" /\ inv[s].pc = "clear"
  /\ checkpoints' = clearCheckpoint("archive")
  /\ setInv(s, afterReturn(inv[s]))
  /\ UNCHANGED <<candVars, chromeVars, visitVars, metadataTasks, bookmarks, categories, settings, nextCheckpointId, now,
                 timers, startupPending, hist>>

(***************************************************************************)
(* Tables keyed by id                                                       *)
(***************************************************************************)
\* Table.add / Table.put of one record
put(table, id, record) ==
  [k \in DOMAIN table \cup {id} |-> IF k = id THEN record ELSE table[k]]

\* Table.delete
delete(table, id) == [k \in DOMAIN table \ {id} |-> table[k]]

\* Table.update(id, changes): a key that is not in the table changes nothing.
updateCandidate(table, id, changes) ==
  IF id \in DOMAIN table
    THEN [table EXCEPT ![id] = [f \in DOMAIN @ |->
                                  IF f \in DOMAIN changes THEN changes[f] ELSE @[f]]]
    ELSE table

(***************************************************************************)
(* candidateTracker.ts                                                      *)
(***************************************************************************)
WEEK == 7
MONTH == 30
QUARTER == 90

\* getTimeWindows, in days
getTimeWindows(at) ==
  [now |-> at, oneWeekAgo |-> at - WEEK, oneMonthAgo |-> at - MONTH,
   oneQuarterAgo |-> at - QUARTER]

\* db.candidateUrls.where('status').equals('tracking'), in key order
trackingIds(table) ==
  ascending({id \in DOMAIN table : table[id].status = "tracking"})

\* The window counts recalculation estimates from lastSeen and visitCount.
estimatedWindows(candidate, windows) ==
  [weeklyVisits |-> IF candidate.lastSeen >= windows.oneWeekAgo
                      THEN Min(candidate.visitCount, 7) ELSE 0,
   monthlyVisits |-> IF candidate.lastSeen >= windows.oneMonthAgo
                       THEN Min(candidate.visitCount, 30) ELSE 0,
   quarterlyVisits |-> IF candidate.lastSeen >= windows.oneQuarterAgo
                         THEN candidate.visitCount ELSE 0]

withWindows(candidate, w) ==
  [candidate EXCEPT !.weeklyVisits = w.weeklyVisits,
                    !.monthlyVisits = w.monthlyVisits,
                    !.quarterlyVisits = w.quarterlyVisits]

\* The three comparisons joined with && instead of ||.
meetsEveryThreshold(stats, weeklyThreshold, monthlyThreshold, quarterlyThreshold) ==
  /\ stats.weeklyVisits >= weeklyThreshold
  /\ stats.monthlyVisits >= monthlyThreshold
  /\ stats.quarterlyVisits >= quarterlyThreshold

\* weeklyVisits >= weeklyVisitThreshold || monthlyVisits >= ... || ...
meetsThreshold(stats, weeklyThreshold, monthlyThreshold, quarterlyThreshold) ==
  \/ stats.weeklyVisits >= weeklyThreshold
  \/ stats.monthlyVisits >= monthlyThreshold
  \/ stats.quarterlyVisits >= quarterlyThreshold

\* The Bookmark promoteToBookmark and createBookmarkFromStats build, with
\* the category of a classification of confidence >= 0.5.
autoCreated(url, title, lastVisited, visitCount) ==
  LET result == classification(url, title)
  IN  [newBookmark(url, title) EXCEPT
         !.lastVisited = lastVisited,
         !.visitCount = visitCount,
         !.category = IF confident(result) THEN result.category ELSE NoCategory]

\* db.bookmarks.where('url').equals(url).first(): its id, or 0
firstByUrl(table, url) ==
  LET ids == {id \in DOMAIN table : table[id].url = url}
  IN  IF ids = {} THEN 0 ELSE CHOOSE id \in ids : \A o \in ids : id <= o

\* The for loop of recalculateCandidateWindowVisits at candidate k: past the
\* chunk the checkpoint is saved; otherwise daysSinceLastVisit is taken from
\* Date.now() and the candidate's window counts are updated next.
recalcLoop(L, at) ==
  IF L.k > Len(L.chunk) THEN [L EXCEPT !.pc = "save"]
  ELSE [L EXCEPT !.stale = (at - L.chunk[L.k].lastSeen) > QUARTER,
                 !.pc = "update"]

\* The loop without the deletion of candidates not seen for 90 days.
recalcAfterPromoteKeepsStale(L, at) ==
  recalcLoop([L EXCEPT !.k = @ + 1, !.checkpoint.processedCount = countedUp(@)], at)

\* After the threshold check of candidate k: a stale candidate is deleted,
\* then checkpoint.processedCount++ and the next candidate.
recalcAfterPromote(L, at) ==
  IF L.stale THEN [L EXCEPT !.pc = "delete"]
  ELSE recalcLoop([L EXCEPT !.k = @ + 1, !.checkpoint.processedCount = countedUp(@)], at)

\* Where promoteToBookmark returns to: `promoted` is whether it returned an
\* id (promotedCount++) or null.
promoteReturn(L, promoted, at) ==
  IF L.job = "track"
    THEN [L EXCEPT !.processed = IF promoted THEN 1 ELSE 0, !.pc = "checked"]
    ELSE recalcAfterPromote([L EXCEPT !.processed = IF promoted THEN @ + 1 ELSE @], at)

\* const settings = await db.settings.get('local')
RecalcSettings(s) ==
  /\ inv[s].job = "candidateRecalculation" /\ inv[s].pc = "settings"
  /\ IF ~settings.exists \/ ~settings.autoBookmarkEnabled
       THEN setInv(s, afterReturn(inv[s]))
       ELSE setInv(s, [inv[s] EXCEPT !.settings = settings, !.pc = "load"])
  /\ UNCHANGED <<candVars, chromeVars, visitVars, metadataTasks, dbVars, now, timers, startupPending, hist>>

\* let checkpoint = await loadCheckpoint('candidateRecalculation'); with a
\* checkpoint the time windows are taken and the chunk is queried next.
RecalcLoad(s) ==
  /\ inv[s].job = "candidateRecalculation" /\ inv[s].pc = "load"
  /\ LET checkpoint == loadCheckpoint("candidateRecalculation")
     IN  setInv(s, [inv[s] EXCEPT
                      !.checkpoint = checkpoint,
                      !.t = now,
                      !.pc = IF checkpoint = NoCheckpoint THEN "count" ELSE "query"])
  /\ UNCHANGED <<candVars, chromeVars, visitVars, metadataTasks, dbVars, now, timers, startupPending, hist>>

\* No checkpoint: count the tracking candidates and make the checkpoint
\* object, or return 0 when there are none.
RecalcCount(s) ==
  /\ inv[s].job = "candidateRecalculation" /\ inv[s].pc = "count"
  /\ LET trackingCount == Len(trackingIds(candidates))
     IN  IF trackingCount = 0
           THEN setInv(s, afterReturn(inv[s]))
           ELSE setInv(s, [inv[s] EXCEPT
                             !.checkpoint = freshCheckpoint("candidateRecalculation",
                                                            trackingCount),
                             !.pc = "create"])
  /\ UNCHANGED <<candVars, chromeVars, visitVars, metadataTasks, dbVars, now, timers, startupPending, hist>>

\* await saveCheckpoint(checkpoint) of the new checkpoint, then the windows
RecalcCreate(s) ==
  /\ inv[s].job = "candidateRecalculation" /\ inv[s].pc = "create"
  /\ LET saved == saveCheckpoint(inv[s].checkpoint)
     IN  /\ checkpoints' = saved.table
         /\ nextCheckpointId' = saved.nextId
         /\ setInv(s, [inv[s] EXCEPT !.checkpoint = saved.object, !.t = now,
                                     !.pc = "query"])
  /\ UNCHANGED <<candVars, chromeVars, visitVars, metadataTasks, bookmarks, categories, settings, now,
                 timers, startupPending, hist>>

\* The chunk: the first CHUNK_SIZE tracking candidates, as they are now.
RecalcQuery(s) ==
  /\ inv[s].job = "candidateRecalculation" /\ inv[s].pc = "query"
  /\ LET ids == limit(trackingIds(candidates), CHUNK_SIZE)
         chunk == [n \in 1..Len(ids) |-> candidates[ids[n]]]
     IN  setInv(s, recalcLoop([inv[s] EXCEPT !.chunk = chunk, !.k = 1,
                                             !.processed = 0], now))
  /\ UNCHANGED <<candVars, chromeVars, visitVars, metadataTasks, dbVars, now, timers, startupPending, hist>>

\* await db.candidateUrls.update(candidate.id, {weeklyVisits, monthlyVisits,
\* quarterlyVisits}); a candidate that meets a threshold is promoted.
RecalcUpdate(s) ==
  /\ inv[s].job = "candidateRecalculation" /\ inv[s].pc = "update"
  /\ LET candidate == inv[s].chunk[inv[s].k]
         w == estimatedWindows(candidate, getTimeWindows(inv[s].t))
     IN  /\ candidates' = updateCandidate(candidates, candidate.id, w)
         /\ IF meetsThreshold(w, inv[s].settings.weeklyVisitThreshold,
                              inv[s].settings.monthlyVisitThreshold,
                              inv[s].settings.quarterlyVisitThreshold)
              THEN setInv(s, [inv[s] EXCEPT !.candidate = withWindows(candidate, w),
                                            !.pc = "promoteFind"])
              ELSE setInv(s, recalcAfterPromote(inv[s], now))
  /\ UNCHANGED <<nextCandidateId, chromeVars, visitVars, metadataTasks, dbVars, now, timers,
                 startupPending, hist>>

\* await db.candidateUrls.delete(candidate.id) of a candidate not seen for
\* more than 90 days; checkpoint.processedCount++
RecalcDelete(s) ==
  /\ inv[s].job = "candidateRecalculation" /\ inv[s].pc = "delete"
  /\ candidates' = delete(candidates, inv[s].chunk[inv[s].k].id)
  /\ setInv(s, recalcLoop([inv[s] EXCEPT !.k = @ + 1,
                                         !.checkpoint.processedCount = countedUp(@)], now))
  /\ UNCHANGED <<nextCandidateId, chromeVars, visitVars, metadataTasks, dbVars, now, timers,
                 startupPending, hist>>

\* await saveCheckpoint(checkpoint) after the chunk
RecalcSave(s) ==
  /\ inv[s].job = "candidateRecalculation" /\ inv[s].pc = "save"
  /\ LET saved == saveCheckpoint(inv[s].checkpoint)
     IN  /\ checkpoints' = saved.table
         /\ nextCheckpointId' = saved.nextId
         /\ setInv(s, [inv[s] EXCEPT !.checkpoint = saved.object, !.pc = "remaining"])
  /\ UNCHANGED <<candVars, chromeVars, visitVars, metadataTasks, bookmarks, categories, settings, now,
                 timers, startupPending, hist>>

\* remainingCount: tracking candidates left and a full chunk schedule the
\* next invocation; otherwise on to clearCheckpoint.
RecalcRemaining(s) ==
  /\ inv[s].job = "candidateRecalculation" /\ inv[s].pc = "remaining"
  /\ LET remainingCount == Len(trackingIds(candidates))
     IN  IF remainingCount > 0 /\ Len(inv[s].chunk) = CHUNK_SIZE
           THEN schedule("candidateRecalculation") /\ setInv(s, afterReturn(inv[s]))
           ELSE UNCHANGED timers /\ setInv(s, [inv[s] EXCEPT !.pc = "clear"])
  /\ UNCHANGED <<candVars, chromeVars, visitVars, metadataTasks, dbVars, now, startupPending, hist>>

\* await clearCheckpoint('candidateRecalculation'), and the job returns.
RecalcClear(s) ==
  /\ inv[s].job = "candidateRecalculation" /\ inv[s].pc = "clear"
  /\ checkpoints' = clearCheckpoint("candidateRecalculation")
  /\ setInv(s, afterReturn(inv[s]))
  /\ UNCHANGED <<candVars, chromeVars, visitVars, metadataTasks, bookmarks, categories, settings,
                 nextCheckpointId, now, timers, startupPending, hist>>

(***************************************************************************)
(* promoteToBookmark (candidateTracker.ts)                                  *)
(***************************************************************************)
\* const existingBookmark = await db.bookmarks.where('url')
\*   .equals(candidate.url).first()
PromoteFind(s) ==
  /\ inv[s].pc = "promoteFind"
  /\ LET existingBookmark == firstByUrl(bookmarks, inv[s].candidate.url)
     IN  setInv(s, [inv[s] EXCEPT
                      !.existing = existingBookmark,
                      !.pc = IF existingBookmark # 0 THEN "promoteExisting"
                             ELSE "promoteChrome"])
  /\ UNCHANGED <<candVars, chromeVars, visitVars, metadataTasks, dbVars, now, timers, startupPending, hist>>

\* Already bookmarked: await db.candidateUrls.update(candidate.id,
\* {status: 'promoted'}); return existingBookmark.id
PromoteExisting(s) ==
  /\ inv[s].pc = "promoteExisting"
  /\ candidates' = updateCandidate(candidates, inv[s].candidate.id,
                                   [status |-> "promoted"])
  /\ setInv(s, promoteReturn(inv[s], TRUE, now))
  /\ UNCHANGED <<nextCandidateId, chromeVars, visitVars, metadataTasks, dbVars, now, timers,
                 startupPending, hist>>

\* chrome.bookmarks.create as below, but with a catch that marks the
\* candidate promoted when the call is rejected.
PromoteChromeMarksRejected(s) ==
  /\ inv[s].pc = "promoteChrome"
  /\ LET candidate == inv[s].candidate
     IN  \/ /\ chromeNextId <= MaxChromeId
            /\ chromeNextId' = chromeNextId + 1
            /\ createdEvents' = Append(createdEvents,
                                       [id |-> chromeNextId, url |-> candidate.url,
                                        title |-> candidate.title])
            /\ setInv(s, [inv[s] EXCEPT
                            !.chromeId = chromeNextId,
                            !.bookmark = autoCreated(candidate.url, candidate.title,
                                                     candidate.lastSeen,
                                                     candidate.visitCount),
                            !.pc = "promoteAdd"])
            /\ UNCHANGED candidates
         \/ /\ setInv(s, promoteReturn(inv[s], FALSE, now))
            /\ candidates' = updateCandidate(candidates, candidate.id,
                                             [status |-> "promoted"])
            /\ UNCHANGED <<chromeNextId, createdEvents>>
  /\ UNCHANGED <<nextCandidateId, historyItems, historyPermission, visitVars, metadataTasks, dbVars,
                 now, timers, startupPending, hist>>

\* const chromeBookmark = await chrome.bookmarks.create({title, url}): Chrome
\* adds the node and raises onCreated, or the call is rejected and the catch
\* returns null. The Bookmark to add is built from the new node's id.
PromoteChrome(s) ==
  /\ inv[s].pc = "promoteChrome"
  /\ LET candidate == inv[s].candidate
     IN  \/ /\ chromeNextId <= MaxChromeId
            /\ chromeNextId' = chromeNextId + 1
            /\ createdEvents' = Append(createdEvents,
                                       [id |-> chromeNextId, url |-> candidate.url,
                                        title |-> candidate.title])
            /\ setInv(s, [inv[s] EXCEPT
                            !.chromeId = chromeNextId,
                            !.bookmark = autoCreated(candidate.url, candidate.title,
                                                     candidate.lastSeen,
                                                     candidate.visitCount),
                            !.pc = "promoteAdd"])
         \/ /\ setInv(s, promoteReturn(inv[s], FALSE, now))
            /\ UNCHANGED <<chromeNextId, createdEvents>>
  /\ UNCHANGED <<candVars, historyItems, historyPermission, visitVars, metadataTasks, dbVars, now, timers,
                 startupPending, hist>>

\* await db.bookmarks.add(bookmark): a key that is in the table already is a
\* ConstraintError, which the catch turns into `return null`.
PromoteAdd(s) ==
  /\ inv[s].pc = "promoteAdd"
  /\ IF inv[s].chromeId \in DOMAIN bookmarks
       THEN /\ setInv(s, promoteReturn(inv[s], FALSE, now))
            /\ UNCHANGED bookmarks
       ELSE /\ bookmarks' = put(bookmarks, inv[s].chromeId, inv[s].bookmark)
            /\ setInv(s, [inv[s] EXCEPT
                            !.pc = IF inv[s].bookmark.category # NoCategory
                                     THEN "promoteCategoryGet" ELSE "promoteMark"])
  /\ UNCHANGED <<candVars, chromeVars, visitVars, metadataTasks, categories, settings, checkpoints,
                 nextCheckpointId, now, timers, startupPending, hist>>

\* const category = await db.categories.get(bookmark.category)
PromoteCategoryGet(s) ==
  /\ inv[s].pc = "promoteCategoryGet"
  /\ IF inv[s].bookmark.category \in DOMAIN categories
       THEN setInv(s, [inv[s] EXCEPT !.read = categories[inv[s].bookmark.category],
                                     !.pc = "promoteCategoryPut"])
       ELSE setInv(s, [inv[s] EXCEPT !.pc = "promoteMark"])
  /\ UNCHANGED <<candVars, chromeVars, visitVars, metadataTasks, dbVars, now, timers, startupPending, hist>>

\* await db.categories.update(bookmark.category,
\*   {bookmarkCount: category.bookmarkCount + 1})
PromoteCategoryPut(s) ==
  /\ inv[s].pc = "promoteCategoryPut"
  /\ categories' = [categories EXCEPT ![inv[s].bookmark.category] = inv[s].read + 1]
  /\ setInv(s, [inv[s] EXCEPT !.pc = "promoteMark"])
  /\ UNCHANGED <<candVars, chromeVars, visitVars, metadataTasks, bookmarks, settings, checkpoints,
                 nextCheckpointId, now, timers, startupPending, hist>>

\* await db.candidateUrls.update(candidate.id, {status: 'promoted'});
\* return chromeBookmark.id
PromoteMark(s) ==
  /\ inv[s].pc = "promoteMark"
  /\ candidates' = updateCandidate(candidates, inv[s].candidate.id,
                                   [status |-> "promoted"])
  /\ setInv(s, promoteReturn(inv[s], TRUE, now))
  /\ UNCHANGED <<nextCandidateId, chromeVars, visitVars, metadataTasks, dbVars, now, timers,
                 startupPending, hist>>

(***************************************************************************)
(* historyAnalyzer.ts                                                       *)
(***************************************************************************)
\* extractDomain of historyAnalyzer.ts and candidateTracker.ts
extractDomainLower(url) ==
  IF ~url.valid THEN <<>> ELSE toLowerCase(stripWww(parseURL(url).host))

\* normalizeURL(url) as the string the source compares and stores
normalizedUrlOf(url) ==
  IF url \in DOMAIN NormalizedTable THEN NormalizedTable[url]
  ELSE href(normalizeURL(url))

\* `x || d` for a number
orElse(x, d) == IF x = 0 THEN d ELSE x

\* One item of the loop of aggregateHistoryStats, on the Map's entries in
\* insertion order.
aggregateItem(entries, item, at) ==
  LET windows == getTimeWindows(at)
      normalizedUrl == normalizedUrlOf(item.url)
      domain == extractDomainLower(item.url)
      visitTime == orElse(item.lastVisitTime, at)
      visits == orElse(item.visitCount, 1)
      found == {n \in 1..Len(entries) : entries[n].normalizedUrl = normalizedUrl}
      created == [url |-> item.url, normalizedUrl |-> normalizedUrl,
                  title |-> nonEmptyOr(item.title, domain), domain |-> domain,
                  totalVisits |-> 0, weeklyVisits |-> 0, monthlyVisits |-> 0,
                  quarterlyVisits |-> 0, firstVisit |-> visitTime,
                  lastVisit |-> visitTime]
      all == IF found = {} THEN Append(entries, created) ELSE entries
      n == IF found = {} THEN Len(all) ELSE CHOOSE m \in found : TRUE
      stats == all[n]
      updated ==
        [stats EXCEPT
           !.totalVisits = @ + visits,
           !.weeklyVisits = IF visitTime >= windows.oneWeekAgo THEN @ + visits ELSE @,
           !.monthlyVisits = IF visitTime >= windows.oneMonthAgo THEN @ + visits ELSE @,
           !.quarterlyVisits = IF visitTime >= windows.oneQuarterAgo THEN @ + visits ELSE @,
           !.firstVisit = IF visitTime < @ THEN visitTime ELSE @,
           !.lastVisit = IF visitTime > @ THEN visitTime ELSE @,
           !.title = IF item.title # <<>> /\ Len(item.title) > Len(@)
                       THEN item.title ELSE @]
  IN  IF href(item.url) = <<>> \/ domain = <<>> THEN entries
      ELSE [all EXCEPT ![n] = updated]

\* aggregateHistoryStats
RECURSIVE aggregateFrom(_, _, _)
aggregateFrom(entries, items, at) ==
  IF items = <<>> THEN entries
  ELSE aggregateFrom(aggregateItem(entries, Head(items), at), Tail(items), at)

aggregateHistoryStats(items, at) == aggregateFrom(<<>>, items, at)

\* chrome.history.search({text: '', maxResults: 10000, startTime})
historySearch(startTime) ==
  SelectSeq(historyItems, LAMBDA item : item.lastVisitTime >= startTime)

\* isAlreadyBookmarked: db.bookmarks.filter(b => normalizeURL(b.url) ===
\* normalizedUrl).count() > 0
isAlreadyBookmarked(normalizedUrl) ==
  \E id \in DOMAIN bookmarks : normalizedUrlOf(bookmarks[id].url) = normalizedUrl

\* settings?.excludedDomains.some(d => domain.includes(d))
domainExcluded(domain) ==
  /\ settings.exists
  /\ \E d \in settings.excludedDomains : includes(domain, d)

\* db.naturalLanguageRules: no handler of the model writes the table.
naturalLanguageRules == {}

\* shouldExcludeUrl: the first active rule, by priority, that matches
\* decides; no rule: false.
shouldExcludeUrl(url, title) == naturalLanguageRules # {}

\* The urlStats entry of index i (from 0).
statsAt(L) == L.urlStats[L.i + 1]

\* The for loop of analyzeExistingHistory at index i: past endIndex the
\* checkpoint is saved, otherwise isAlreadyBookmarked is asked next.
histLoop(L) ==
  IF L.i >= L.endIndex
    THEN [L EXCEPT !.checkpoint.lastProcessedIndex = L.endIndex, !.pc = "save"]
    ELSE [L EXCEPT !.pc = "isBookmarked"]

\* checkpoint.processedCount++ and the next index
histNext(L) ==
  histLoop([L EXCEPT !.i = @ + 1, !.checkpoint.processedCount = @ + 1])

\* The same for a loop that starts at the first entry of the snapshot.
histStartAtFirst(L, checkpoint, urlStats) ==
  histLoop([L EXCEPT
              !.checkpoint = checkpoint,
              !.urlStats = urlStats,
              !.i = 0,
              !.endIndex = Min(HISTORY_CHUNK_SIZE, Len(urlStats)),
              !.processed = 0])

\* startIndex, endIndex and the entry into the loop
histStart(L, checkpoint, urlStats) ==
  LET startIndex == checkpoint.lastProcessedIndex
  IN  histLoop([L EXCEPT
                  !.checkpoint = checkpoint,
                  !.urlStats = urlStats,
                  !.i = startIndex,
                  !.endIndex = Min(startIndex + HISTORY_CHUNK_SIZE, Len(urlStats)),
                  !.processed = 0])

\* const hasHistoryPermission = await hasPermission('history')
HistPermission(s) ==
  /\ inv[s].job = "historyAnalysis" /\ inv[s].pc = "permission"
  /\ IF ~historyPermission
       THEN setInv(s, afterReturn(inv[s]))
       ELSE setInv(s, [inv[s] EXCEPT !.pc = "settings"])
  /\ UNCHANGED <<candVars, chromeVars, visitVars, metadataTasks, dbVars, now, timers, startupPending, hist>>

\* const settings = await db.settings.get('local'); the thresholds and
\* getTimeWindows()
HistSettings(s) ==
  /\ inv[s].job = "historyAnalysis" /\ inv[s].pc = "settings"
  /\ IF ~settings.exists \/ ~settings.autoBookmarkEnabled
       THEN setInv(s, afterReturn(inv[s]))
       ELSE setInv(s, [inv[s] EXCEPT !.settings = settings, !.t = now,
                                     !.pc = "load"])
  /\ UNCHANGED <<candVars, chromeVars, visitVars, metadataTasks, dbVars, now, timers, startupPending, hist>>

\* let checkpoint = await loadCheckpoint('historyAnalysis'); a checkpoint
\* with urlStats is resumed, otherwise the history is fetched.
HistLoad(s) ==
  /\ inv[s].job = "historyAnalysis" /\ inv[s].pc = "load"
  /\ LET checkpoint == loadCheckpoint("historyAnalysis")
     IN  IF checkpoint # NoCheckpoint /\ checkpoint.hasUrlStats
           THEN setInv(s, histStart(inv[s], checkpoint, checkpoint.urlStats))
           ELSE setInv(s, [inv[s] EXCEPT !.checkpoint = checkpoint, !.pc = "search"])
  /\ UNCHANGED <<candVars, chromeVars, visitVars, metadataTasks, dbVars, now, timers, startupPending, hist>>

\* const historyItems = await chrome.history.search(...);
\* urlStats = await aggregateHistoryStats(historyItems); the checkpoint object
HistSearch(s) ==
  /\ inv[s].job = "historyAnalysis" /\ inv[s].pc = "search"
  /\ LET found == historySearch(getTimeWindows(inv[s].t).oneQuarterAgo)
         urlStats == aggregateHistoryStats(found, now)
     IN  setInv(s, [inv[s] EXCEPT
                      !.urlStats = urlStats,
                      !.checkpoint =
                         [freshCheckpoint("historyAnalysis", Len(urlStats)) EXCEPT
                            !.hasUrlStats = TRUE, !.urlStats = urlStats],
                      !.pc = "create"])
  /\ UNCHANGED <<candVars, chromeVars, visitVars, metadataTasks, dbVars, now, timers, startupPending, hist>>

\* await saveCheckpoint(checkpoint) of the new checkpoint
HistCreate(s) ==
  /\ inv[s].job = "historyAnalysis" /\ inv[s].pc = "create"
  /\ LET saved == saveCheckpoint(inv[s].checkpoint)
     IN  /\ checkpoints' = saved.table
         /\ nextCheckpointId' = saved.nextId
         /\ setInv(s, histStart(inv[s], saved.object, inv[s].urlStats))
  /\ UNCHANGED <<candVars, chromeVars, visitVars, metadataTasks, bookmarks, categories, settings, now,
                 timers, startupPending, hist>>

\* if (await isAlreadyBookmarked(stats.normalizedUrl)) { processedCount++;
\* continue }
HistIsBookmarked(s) ==
  /\ inv[s].job = "historyAnalysis" /\ inv[s].pc = "isBookmarked"
  /\ IF isAlreadyBookmarked(statsAt(inv[s]).normalizedUrl)
       THEN setInv(s, histNext(inv[s]))
       ELSE setInv(s, [inv[s] EXCEPT !.pc = "excludedSettings"])
  /\ UNCHANGED <<candVars, chromeVars, visitVars, metadataTasks, dbVars, now, timers, startupPending, hist>>

\* isExcluded: const settings = await db.settings.get('local'); an excluded
\* domain skips the entry.
HistExcludedSettings(s) ==
  /\ inv[s].job = "historyAnalysis" /\ inv[s].pc = "excludedSettings"
  /\ IF domainExcluded(statsAt(inv[s]).domain)
       THEN setInv(s, histNext(inv[s]))
       ELSE setInv(s, [inv[s] EXCEPT !.pc = "excludedRules"])
  /\ UNCHANGED <<candVars, chromeVars, visitVars, metadataTasks, dbVars, now, timers, startupPending, hist>>

\* isExcluded: await shouldExcludeUrl(url, title); then meetsThreshold
\* chooses between createBookmarkFromStats and addToCandidate.
HistExcludedRules(s) ==
  /\ inv[s].job = "historyAnalysis" /\ inv[s].pc = "excludedRules"
  /\ LET stats == statsAt(inv[s])
     IN  IF shouldExcludeUrl(stats.url, stats.title)
           THEN setInv(s, histNext(inv[s]))
           ELSE IF meetsThreshold(stats, inv[s].settings.weeklyVisitThreshold,
                                  inv[s].settings.monthlyVisitThreshold,
                                  inv[s].settings.quarterlyVisitThreshold)
             THEN setInv(s, [inv[s] EXCEPT !.pc = "createChrome"])
             ELSE setInv(s, [inv[s] EXCEPT !.pc = "candidateFind"])
  /\ UNCHANGED <<candVars, chromeVars, visitVars, metadataTasks, dbVars, now, timers, startupPending, hist>>

\* createBookmarkFromStats: const chromeBookmark = await
\* chrome.bookmarks.create({title, url}), or the call is rejected and the
\* catch returns null.
CreateChrome(s) ==
  /\ inv[s].job = "historyAnalysis" /\ inv[s].pc = "createChrome"
  /\ LET stats == statsAt(inv[s])
     IN  \/ /\ chromeNextId <= MaxChromeId
            /\ chromeNextId' = chromeNextId + 1
            /\ createdEvents' = Append(createdEvents,
                                       [id |-> chromeNextId, url |-> stats.url,
                                        title |-> stats.title])
            /\ setInv(s, [inv[s] EXCEPT
                            !.chromeId = chromeNextId,
                            !.bookmark = autoCreated(stats.url, stats.title,
                                                     stats.lastVisit, stats.totalVisits),
                            !.pc = "createAdd"])
         \/ /\ setInv(s, histNext(inv[s]))
            /\ UNCHANGED <<chromeNextId, createdEvents>>
  /\ UNCHANGED <<candVars, historyItems, historyPermission, visitVars, metadataTasks, dbVars, now, timers,
                 startupPending, hist>>

\* createBookmarkFromStats: await db.bookmarks.add(bookmark); a key that is
\* in the table already is a ConstraintError and the catch returns null.
CreateAdd(s) ==
  /\ inv[s].job = "historyAnalysis" /\ inv[s].pc = "createAdd"
  /\ IF inv[s].chromeId \in DOMAIN bookmarks
       THEN /\ setInv(s, histNext(inv[s]))
            /\ UNCHANGED bookmarks
       ELSE /\ bookmarks' = put(bookmarks, inv[s].chromeId, inv[s].bookmark)
            /\ IF inv[s].bookmark.category # NoCategory
                 THEN setInv(s, [inv[s] EXCEPT !.pc = "createCategoryGet"])
                 ELSE setInv(s, histNext([inv[s] EXCEPT !.processed = @ + 1]))
  /\ UNCHANGED <<candVars, chromeVars, visitVars, metadataTasks, categories, settings, checkpoints,
                 nextCheckpointId, now, timers, startupPending, hist>>

\* createBookmarkFromStats: const category = await
\* db.categories.get(bookmark.category)
CreateCategoryGet(s) ==
  /\ inv[s].job = "historyAnalysis" /\ inv[s].pc = "createCategoryGet"
  /\ IF inv[s].bookmark.category \in DOMAIN categories
       THEN setInv(s, [inv[s] EXCEPT !.read = categories[inv[s].bookmark.category],
                                     !.pc = "createCategoryPut"])
       ELSE setInv(s, histNext([inv[s] EXCEPT !.processed = @ + 1]))
  /\ UNCHANGED <<candVars, chromeVars, visitVars, metadataTasks, dbVars, now, timers, startupPending, hist>>

\* createBookmarkFromStats: await db.categories.update(bookmark.category,
\* {bookmarkCount: category.bookmarkCount + 1}); return chromeBookmark.id
CreateCategoryPut(s) ==
  /\ inv[s].job = "historyAnalysis" /\ inv[s].pc = "createCategoryPut"
  /\ categories' = [categories EXCEPT ![inv[s].bookmark.category] = inv[s].read + 1]
  /\ setInv(s, histNext([inv[s] EXCEPT !.processed = @ + 1]))
  /\ UNCHANGED <<candVars, chromeVars, visitVars, metadataTasks, bookmarks, settings, checkpoints,
                 nextCheckpointId, now, timers, startupPending, hist>>

\* db.candidateUrls.where('normalizedUrl').equals(normalizedUrl).first():
\* its id, or 0
firstByNormalizedUrl(table, normalizedUrl) ==
  LET ids == {id \in DOMAIN table : table[id].normalizedUrl = normalizedUrl}
  IN  IF ids = {} THEN 0 ELSE CHOOSE id \in ids : \A o \in ids : id <= o

\* The candidate addToCandidate creates from the statistics of a URL.
candidateFromStats(stats) ==
  [id |-> 0, url |-> stats.url, normalizedUrl |-> stats.normalizedUrl,
   title |-> stats.title, domain |-> stats.domain, firstSeen |-> stats.firstVisit,
   lastSeen |-> stats.lastVisit, visitCount |-> stats.totalVisits,
   weeklyVisits |-> stats.weeklyVisits, monthlyVisits |-> stats.monthlyVisits,
   quarterlyVisits |-> stats.quarterlyVisits, status |-> "tracking"]

\* addToCandidate: const existing = await db.candidateUrls
\*   .where('normalizedUrl').equals(stats.normalizedUrl).first()
CandidateFind(s) ==
  /\ inv[s].job = "historyAnalysis" /\ inv[s].pc = "candidateFind"
  /\ LET existing == firstByNormalizedUrl(candidates, statsAt(inv[s]).normalizedUrl)
     IN  setInv(s, [inv[s] EXCEPT
                      !.existing = existing,
                      !.pc = IF existing # 0 THEN "candidateUpdate" ELSE "candidateAdd"])
  /\ UNCHANGED <<candVars, chromeVars, visitVars, metadataTasks, dbVars, now, timers, startupPending, hist>>

\* addToCandidate: await db.candidateUrls.update(existing.id, {visitCount,
\* weeklyVisits, monthlyVisits, quarterlyVisits, lastSeen})
CandidateUpdate(s) ==
  /\ inv[s].job = "historyAnalysis" /\ inv[s].pc = "candidateUpdate"
  /\ LET stats == statsAt(inv[s])
     IN  candidates' =
           updateCandidate(candidates, inv[s].existing,
                           [visitCount |-> stats.totalVisits,
                            weeklyVisits |-> stats.weeklyVisits,
                            monthlyVisits |-> stats.monthlyVisits,
                            quarterlyVisits |-> stats.quarterlyVisits,
                            lastSeen |-> stats.lastVisit])
  /\ setInv(s, histNext(inv[s]))
  /\ UNCHANGED <<nextCandidateId, chromeVars, visitVars, metadataTasks, dbVars, now, timers,
                 startupPending, hist>>

\* addToCandidate: await db.candidateUrls.add(candidate)
CandidateAdd(s) ==
  /\ inv[s].job = "historyAnalysis" /\ inv[s].pc = "candidateAdd"
  /\ candidates' = put(candidates, nextCandidateId,
                       [candidateFromStats(statsAt(inv[s])) EXCEPT
                          !.id = nextCandidateId])
  /\ nextCandidateId' = nextCandidateId + 1
  /\ setInv(s, histNext(inv[s]))
  /\ UNCHANGED <<chromeVars, visitVars, metadataTasks, dbVars, now, timers, startupPending, hist>>

\* checkpoint.lastProcessedIndex = endIndex; await saveCheckpoint(checkpoint);
\* entries left schedule the next invocation, none goes on to clearCheckpoint.
HistSave(s) ==
  /\ inv[s].job = "historyAnalysis" /\ inv[s].pc = "save"
  /\ LET saved == saveCheckpoint(inv[s].checkpoint)
     IN  /\ checkpoints' = saved.table
         /\ nextCheckpointId' = saved.nextId
         /\ IF inv[s].endIndex < Len(inv[s].urlStats)
              THEN schedule("historyAnalysis") /\ setInv(s, afterReturn(inv[s]))
              ELSE /\ UNCHANGED timers
                   /\ setInv(s, [inv[s] EXCEPT !.checkpoint = saved.object,
                                               !.pc = "clear"])
  /\ UNCHANGED <<candVars, chromeVars, visitVars, metadataTasks, bookmarks, categories, settings, now,
                 startupPending, hist>>

\* await clearCheckpoint('historyAnalysis')
HistClear(s) ==
  /\ inv[s].job = "historyAnalysis" /\ inv[s].pc = "clear"
  /\ checkpoints' = clearCheckpoint("historyAnalysis")
  /\ setInv(s, [inv[s] EXCEPT !.pc = "analyzedAt"])
  /\ UNCHANGED <<candVars, chromeVars, visitVars, metadataTasks, bookmarks, categories, settings,
                 nextCheckpointId, now, timers, startupPending, hist>>

\* await db.settings.update('local', {historyAnalyzedAt: Date.now()}), and
\* the job returns.
HistAnalyzedAt(s) ==
  /\ inv[s].job = "historyAnalysis" /\ inv[s].pc = "analyzedAt"
  /\ settings' = IF settings.exists
                   THEN [settings EXCEPT !.historyAnalyzedAt = now] ELSE settings
  /\ setInv(s, afterReturn(inv[s]))
  /\ UNCHANGED <<candVars, chromeVars, visitVars, metadataTasks, bookmarks, categories, checkpoints,
                 nextCheckpointId, now, timers, startupPending, hist>>

(***************************************************************************)
(* trackCandidateUrl, checkAndPromoteCandidate, dismissCandidate            *)
(* (candidateTracker.ts)                                                    *)
(***************************************************************************)
\* `title || domain`
titleOr(title, domain) == IF title = <<>> THEN domain ELSE title

\* title && title.length > existing.title.length ? title : existing.title
longerTitle(title, existingTitle) ==
  IF title # <<>> /\ Len(title) > Len(existingTitle) THEN title ELSE existingTitle

\* The bookmarks whose URL has the canonical form of the given URL.
canonicalTwins(table, url) ==
  {id \in DOMAIN table : normalizedUrlOf(table[id].url) = normalizedUrlOf(url)}

\* trackCandidateUrl(url, title) is called: normalizedUrl and domain are
\* taken, an invalid URL returns at once, and shouldExcludeUrl is awaited.
Track(url, title) ==
  /\ hist.tracks < MaxTracks
  /\ \E s \in Slots :
       /\ freeSlot(s)
       /\ setInv(s, IF extractDomainLower(url) = <<>> THEN IdleInv
                    ELSE [started("track", "excluded", "none") EXCEPT
                            !.url = url, !.title = title])
  /\ hist' = [hist EXCEPT !.tracks = @ + 1]
  /\ UNCHANGED <<candVars, chromeVars, visitVars, metadataTasks, dbVars, now, timers,
                 startupPending>>

\* const excluded = await shouldExcludeUrl(url, title || domain): with no
\* active rule it is false, and db.settings.get('local') is awaited.
TrackExcluded(s) ==
  /\ inv[s].job = "track" /\ inv[s].pc = "excluded"
  /\ ~shouldExcludeUrl(inv[s].url, titleOr(inv[s].title, extractDomainLower(inv[s].url)))
  /\ setInv(s, [inv[s] EXCEPT !.pc = "settings"])
  /\ UNCHANGED <<candVars, chromeVars, visitVars, metadataTasks, dbVars, now, timers,
                 startupPending, hist>>

\* const settings = await db.settings.get('local'); a domain of
\* settings.excludedDomains returns.
TrackSettings(s) ==
  /\ inv[s].job = "track" /\ inv[s].pc = "settings"
  /\ setInv(s, IF domainExcluded(extractDomainLower(inv[s].url)) THEN IdleInv
               ELSE [inv[s] EXCEPT !.pc = "find"])
  /\ UNCHANGED <<candVars, chromeVars, visitVars, metadataTasks, dbVars, now, timers,
                 startupPending, hist>>

\* const existing = await db.candidateUrls.where('normalizedUrl')
\*   .equals(normalizedUrl).first(); const now = Date.now(); an existing
\* candidate that is not tracking returns.
TrackFind(s) ==
  /\ inv[s].job = "track" /\ inv[s].pc = "find"
  /\ LET existing == firstByNormalizedUrl(candidates, normalizedUrlOf(inv[s].url))
     IN  setInv(s, IF existing = 0
                     THEN [inv[s] EXCEPT !.t = now, !.pc = "add"]
                   ELSE IF candidates[existing].status = "tracking"
                     THEN [inv[s] EXCEPT !.t = now, !.existing = existing,
                                         !.candidate = candidates[existing],
                                         !.pc = "update"]
                   ELSE IdleInv)
  /\ UNCHANGED <<candVars, chromeVars, visitVars, metadataTasks, dbVars, now, timers,
                 startupPending, hist>>

\* await db.candidateUrls.update(existing.id, {visitCount:
\* existing.visitCount + 1, lastSeen: now, title}); then
\* checkAndPromoteCandidate(existing.id)
TrackUpdate(s) ==
  /\ inv[s].job = "track" /\ inv[s].pc = "update"
  /\ candidates' =
       updateCandidate(candidates, inv[s].existing,
                       [visitCount |-> inv[s].candidate.visitCount + 1,
                        lastSeen |-> inv[s].t,
                        title |-> longerTitle(inv[s].title, inv[s].candidate.title)])
  /\ setInv(s, [inv[s] EXCEPT !.pc = "checkGet"])
  /\ UNCHANGED <<nextCandidateId, chromeVars, visitVars, metadataTasks, dbVars, now, timers,
                 startupPending, hist>>

\* await db.candidateUrls.add(candidate) of the new candidate, with every
\* count at 1; trackCandidateUrl returns.
TrackAdd(s) ==
  /\ inv[s].job = "track" /\ inv[s].pc = "add"
  /\ LET domain == extractDomainLower(inv[s].url)
     IN  candidates' =
           put(candidates, nextCandidateId,
               [id |-> nextCandidateId, url |-> inv[s].url,
                normalizedUrl |-> normalizedUrlOf(inv[s].url),
                title |-> titleOr(inv[s].title, domain), domain |-> domain,
                firstSeen |-> inv[s].t, lastSeen |-> inv[s].t, visitCount |-> 1,
                weeklyVisits |-> 1, monthlyVisits |-> 1, quarterlyVisits |-> 1,
                status |-> "tracking"])
  /\ nextCandidateId' = nextCandidateId + 1
  /\ setInv(s, IdleInv)
  /\ UNCHANGED <<chromeVars, visitVars, metadataTasks, dbVars, now, timers, startupPending, hist>>

\* checkAndPromoteCandidate: const candidate = await
\* db.candidateUrls.get(candidateId); false unless it is tracking.
CheckGet(s) ==
  /\ inv[s].job = "track" /\ inv[s].pc = "checkGet"
  /\ setInv(s, IF inv[s].existing \in DOMAIN candidates
                  /\ candidates[inv[s].existing].status = "tracking"
                 THEN [inv[s] EXCEPT !.candidate = candidates[inv[s].existing],
                                     !.pc = "checkSettings"]
                 ELSE IdleInv)
  /\ UNCHANGED <<candVars, chromeVars, visitVars, metadataTasks, dbVars, now, timers,
                 startupPending, hist>>

\* checkAndPromoteCandidate: const settings = await db.settings.get('local');
\* false without settings or with autoBookmarkEnabled off; a candidate that
\* meets a threshold goes to promoteToBookmark(candidate). `twins` records
\* the bookmarks of the candidate's canonical URL at the call (observation).
CheckSettings(s) ==
  /\ inv[s].job = "track" /\ inv[s].pc = "checkSettings"
  /\ setInv(s, IF ~settings.exists \/ ~settings.autoBookmarkEnabled
                 THEN IdleInv
               ELSE IF meetsThreshold(inv[s].candidate, settings.weeklyVisitThreshold,
                                      settings.monthlyVisitThreshold,
                                      settings.quarterlyVisitThreshold)
                 THEN [inv[s] EXCEPT
                         !.settings = settings,
                         !.twins = canonicalTwins(bookmarks, inv[s].candidate.url),
                         !.pc = "promoteFind"]
               ELSE IdleInv)
  /\ UNCHANGED <<candVars, chromeVars, visitVars, metadataTasks, dbVars, now, timers,
                 startupPending, hist>>

\* What promoteToBookmark returned to checkAndPromoteCandidate: the id of
\* the bookmark it found or of the node it created, 0 for null.
promoteResult(L) ==
  IF L.processed = 0 THEN 0
  ELSE IF L.existing # 0 THEN L.existing ELSE L.chromeId

\* promoteToBookmark has returned: checkAndPromoteCandidate returns true and
\* trackCandidateUrl returns. The call is recorded (observation).
CheckReturn(s) ==
  /\ inv[s].job = "track" /\ inv[s].pc = "checked"
  /\ setInv(s, IdleInv)
  /\ hist' = [hist EXCEPT
                !.promotions = @ \cup
                  {[candidate |-> inv[s].candidate.id,
                    twins |-> inv[s].twins,
                    result |-> promoteResult(inv[s]),
                    created |-> inv[s].chromeId,
                    status |-> IF inv[s].candidate.id \in DOMAIN candidates
                                 THEN candidates[inv[s].candidate.id].status
                                 ELSE "none"]}]
  /\ UNCHANGED <<candVars, chromeVars, visitVars, metadataTasks, dbVars, now, timers,
                 startupPending>>

\* dismissCandidate(candidateId): await db.candidateUrls.update(candidateId,
\* {status: 'dismissed'})
Dismiss(id) ==
  /\ id \in DOMAIN candidates
  /\ candidates[id].status # "dismissed"
  /\ candidates' = updateCandidate(candidates, id, [status |-> "dismissed"])
  /\ UNCHANGED <<nextCandidateId, chromeVars, visitVars, metadataTasks, dbVars, now, inv, timers,
                 startupPending, hist>>

(***************************************************************************)
(* chrome.bookmarks.onCreated and handleBookmarkAdded (background.ts)       *)
(***************************************************************************)
\* The event is delivered, whatever other handler is at an await:
\* handleBookmarkAdded builds the Bookmark and classifies it.
Created ==
  /\ createdEvents # <<>>
  /\ LET event == Head(createdEvents)
         result == classification(event.url, event.title)
         bookmark == [newBookmark(event.url, event.title) EXCEPT
                        !.category = IF confident(result) THEN result.category
                                     ELSE NoCategory]
     IN  \E s \in Slots :
           /\ freeSlot(s)
           /\ setInv(s, IF href(event.url) = <<>> THEN IdleInv
                        ELSE [started("created", "add", "none") EXCEPT
                                !.chromeId = event.id, !.bookmark = bookmark])
  /\ createdEvents' = Tail(createdEvents)
  /\ UNCHANGED <<candVars, chromeNextId, historyItems, historyPermission, visitVars,
                 metadataTasks, dbVars, now, timers, startupPending, hist>>

\* Whether handleBookmarkAdded goes on to the notification of a
\* classification of confidence >= 0.8.
notifies(L) ==
  /\ classification(L.bookmark.url, L.bookmark.title).confidence >= 800
  /\ L.bookmark.category # NoCategory
  /\ L.bookmark.category # Uncategorized

addedAfterCount(L) ==
  IF notifies(L) THEN [L EXCEPT !.pc = "notify"] ELSE IdleInv

\* await db.bookmarks.add(bookmark): a key that is in the table already is a
\* ConstraintError that ends the handler.
AddedAdd(s) ==
  /\ inv[s].job = "created" /\ inv[s].pc = "add"
  /\ IF inv[s].chromeId \in DOMAIN bookmarks
       THEN /\ setInv(s, IdleInv)
            /\ UNCHANGED <<bookmarks, metadataTasks>>
       ELSE /\ bookmarks' = put(bookmarks, inv[s].chromeId, inv[s].bookmark)
            /\ IF inv[s].bookmark.category # NoCategory
                 THEN /\ setInv(s, [inv[s] EXCEPT !.pc = "incrementGet"])
                      /\ UNCHANGED metadataTasks
                 ELSE /\ setInv(s, addedAfterCount(inv[s]))
                      /\ metadataTasks' = metadataTasks \cup
                           {[id |-> inv[s].chromeId, url |-> inv[s].bookmark.url]}
  /\ UNCHANGED <<candVars, chromeVars, visitVars, categories, settings, checkpoints,
                 nextCheckpointId, now, timers, startupPending, hist>>

\* incrementCategoryCount: const category = await db.categories.get(categoryId)
AddedIncrementGet(s) ==
  /\ inv[s].job = "created" /\ inv[s].pc = "incrementGet"
  /\ IF inv[s].bookmark.category \in DOMAIN categories
       THEN /\ setInv(s, [inv[s] EXCEPT !.read = categories[inv[s].bookmark.category],
                                        !.pc = "incrementPut"])
            /\ UNCHANGED metadataTasks
       ELSE /\ setInv(s, addedAfterCount(inv[s]))
            /\ metadataTasks' = metadataTasks \cup
                 {[id |-> inv[s].chromeId, url |-> inv[s].bookmark.url]}
  /\ UNCHANGED <<candVars, chromeVars, visitVars, dbVars, now, timers, startupPending, hist>>

\* incrementCategoryCount: await db.categories.update(categoryId,
\* {bookmarkCount: category.bookmarkCount + 1}); fetchAndUpdateMetadata is
\* started and not awaited.
AddedIncrementPut(s) ==
  /\ inv[s].job = "created" /\ inv[s].pc = "incrementPut"
  /\ categories' = [categories EXCEPT ![inv[s].bookmark.category] = inv[s].read + 1]
  /\ setInv(s, addedAfterCount(inv[s]))
  /\ metadataTasks' = metadataTasks \cup
       {[id |-> inv[s].chromeId, url |-> inv[s].bookmark.url]}
  /\ UNCHANGED <<candVars, chromeVars, visitVars, bookmarks, settings, checkpoints,
                 nextCheckpointId, now, timers, startupPending, hist>>

\* const category = await db.categories.get(bookmark.category) for the
\* notification; the handler ends.
AddedNotify(s) ==
  /\ inv[s].job = "created" /\ inv[s].pc = "notify"
  /\ setInv(s, IdleInv)
  /\ UNCHANGED <<candVars, chromeVars, visitVars, metadataTasks, dbVars, now, timers,
                 startupPending, hist>>

\* fetchAndUpdateMetadata: extractMetadata(url) fetched the page or failed;
\* fetched, await db.bookmarks.update(bookmarkId, {metadata: {...metadata,
\* contentHash: generateContentHash(url)}}) with the URL the bookmark was
\* added with.
FetchMetadata ==
  \E task \in metadataTasks :
    /\ metadataTasks' = metadataTasks \ {task}
    /\ \/ bookmarks' =
            IF task.id \in DOMAIN bookmarks
              THEN [bookmarks EXCEPT
                      ![task.id].contentHash = generateContentHash(task.url)]
              ELSE bookmarks
       \/ UNCHANGED bookmarks
    /\ UNCHANGED <<candVars, chromeVars, visitVars, categories, settings, checkpoints,
                   nextCheckpointId, now, inv, timers, startupPending, hist>>

(***************************************************************************)
(* chrome.bookmarks.onChanged (background.ts) and bookmarks the user adds    *)
(***************************************************************************)
\* changeInfo of an onChanged event: the title, and the URL when it changed
\* (a URL of empty text stands for an absent one).
NoUrl == badUrl(<<>>)

\* `changeInfo.url || bookmark.url`
urlOr(url, d) == IF href(url) = <<>> THEN d ELSE url

\* The user adds a bookmark in the browser: Chrome adds the node and raises
\* onCreated. The user acts when the handlers of the events before have
\* ended.
UserCreates(url, title) ==
  /\ allIdle /\ createdEvents = <<>>
  /\ chromeNextId <= MaxChromeId
  /\ chromeNextId' = chromeNextId + 1
  /\ createdEvents' = Append(createdEvents,
                             [id |-> chromeNextId, url |-> url, title |-> title])
  /\ UNCHANGED <<candVars, historyItems, historyPermission, visitVars, metadataTasks, dbVars, now,
                 inv, timers, startupPending, hist>>

\* The user edits the bookmark node `id`: the onChanged listener is invoked
\* with (id, changeInfo) and awaits db.bookmarks.get(id).
Changed(id, url, title) ==
  /\ allIdle /\ createdEvents = <<>>
  /\ id \in DOMAIN bookmarks
  /\ \E s \in Slots :
       /\ freeSlot(s)
       /\ setInv(s, [started("changed", "get", "none") EXCEPT
                       !.chromeId = id, !.url = url, !.title = title])
  /\ UNCHANGED <<candVars, chromeVars, visitVars, metadataTasks, dbVars, now, timers,
                 startupPending, hist>>

\* const bookmark = await db.bookmarks.get(id); without one the listener ends.
ChangedGet(s) ==
  /\ inv[s].job = "changed" /\ inv[s].pc = "get"
  /\ setInv(s, IF inv[s].chromeId \in DOMAIN bookmarks
                 THEN [inv[s] EXCEPT !.bookmark = bookmarks[inv[s].chromeId],
                                     !.pc = "update"]
                 ELSE IdleInv)
  /\ UNCHANGED <<candVars, chromeVars, visitVars, metadataTasks, dbVars, now, timers,
                 startupPending, hist>>

\* await db.bookmarks.update(id, {title: changeInfo.title || bookmark.title,
\* url: changeInfo.url || bookmark.url}): no other field is written.
ChangedUpdate(s) ==
  /\ inv[s].job = "changed" /\ inv[s].pc = "update"
  /\ bookmarks' =
       IF inv[s].chromeId \in DOMAIN bookmarks
         THEN [bookmarks EXCEPT
                 ![inv[s].chromeId].title = titleOr(inv[s].title, inv[s].bookmark.title),
                 ![inv[s].chromeId].url = urlOr(inv[s].url, inv[s].bookmark.url)]
         ELSE bookmarks
  /\ setInv(s, IdleInv)
  /\ UNCHANGED <<candVars, chromeVars, visitVars, metadataTasks, categories, settings, checkpoints,
                 nextCheckpointId, now, timers, startupPending, hist>>

(***************************************************************************)
(* normalizeURL applied to its own result                                   *)
(***************************************************************************)
\* normalizeURL is called with `url`, and again with the string it returned:
\* `returned` holds the results. The string normalizeURL returns parses back
\* into the components it was built from.
Normalize(s) ==
  /\ inv[s].job = "normalizeURL"
  /\ Len(inv[s].returned) < 2
  /\ LET argument == IF inv[s].returned = <<>> THEN inv[s].url
                     ELSE inv[s].returned[Len(inv[s].returned)]
     IN  setInv(s, [inv[s] EXCEPT !.returned = Append(@, normalizeURL(argument))])
  /\ UNCHANGED <<candVars, chromeVars, visitVars, metadataTasks, dbVars, now, timers,
                 startupPending, hist>>

(***************************************************************************)
(* Errors                                                                   *)
(***************************************************************************)
PromoteSteps ==
  {"promoteFind", "promoteExisting", "promoteChrome", "promoteAdd",
   "promoteCategoryGet", "promoteCategoryPut", "promoteMark"}

CreateSteps == {"createChrome", "createAdd", "createCategoryGet", "createCategoryPut"}

\* The awaited operation of a job's handler is rejected. Inside
\* promoteToBookmark and createBookmarkFromStats their own catch returns
\* null; runCategorizationTask and runArchivingTask go to their catch block;
\* recalculateCandidateWindowVisits and analyzeExistingHistory have none:
\* the invocation ends there.
Throw(s) ==
  /\ inv[s].job \in JobTypes
  /\ inv[s].pc # "catch"
  /\ hist.faults < MaxFaults
  /\ LET L == inv[s]
         fault == IF L.checkpoint.id \in runningIds(checkpoints, L.job)
                    THEN {[job |-> L.job, id |-> L.checkpoint.id]} ELSE {}
     IN  IF L.pc \in PromoteSteps
           THEN /\ setInv(s, promoteReturn(L, FALSE, now))
                /\ hist' = [hist EXCEPT !.faults = @ + 1]
         ELSE IF L.pc \in CreateSteps
           THEN /\ setInv(s, histNext(L))
                /\ hist' = [hist EXCEPT !.faults = @ + 1]
         ELSE IF L.job \in {"categorize", "archive"}
           THEN /\ setInv(s, [L EXCEPT !.pc = "catch", !.faulted = fault])
                /\ hist' = [hist EXCEPT !.faults = @ + 1]
         ELSE /\ setInv(s, afterReturn(L))
              /\ hist' = [hist EXCEPT !.faults = @ + 1, !.faulted = @ \cup fault]
  /\ UNCHANGED <<candVars, chromeVars, visitVars, metadataTasks, dbVars, now, timers,
                 startupPending>>

\* catch (error) { console.error(...); await clearCheckpoint(jobType) } of
\* runCategorizationTask and runArchivingTask
Catch(s) ==
  /\ inv[s].job \in {"categorize", "archive"} /\ inv[s].pc = "catch"
  /\ checkpoints' = clearCheckpoint(inv[s].job)
  /\ setInv(s, afterReturn(inv[s]))
  /\ hist' = [hist EXCEPT !.faulted = @ \cup inv[s].faulted]
  /\ UNCHANGED <<candVars, chromeVars, visitVars, metadataTasks, bookmarks, categories,
                 settings, nextCheckpointId, now, timers, startupPending>>

(***************************************************************************)
(* chrome.runtime.onStartup, chrome.alarms.onAlarm, setTimeout, restart     *)
(***************************************************************************)
firstStep(jobType) ==
  CASE jobType = "archive" -> "settings"
    [] jobType = "candidateRecalculation" -> "settings"
    [] jobType = "historyAnalysis" -> "permission"
    [] OTHER -> "load"

\* The running checkpoint of the job has not counted MaxProcessed items.
underCap(jobType) ==
  \A id \in runningIds(checkpoints, jobType) :
    checkpoints[id].processedCount < MaxProcessed

\* The handlers of one specification either may overlap (a handler starts
\* while another is at an await) or run one after the other.
mayStart(overlap) == overlap \/ allIdle

\* chrome.alarms.onAlarm: 'categorize' and 'archive'
Alarm(jobType, overlap) ==
  /\ jobType \in {"categorize", "archive"}
  /\ mayStart(overlap)
  /\ roomForCheckpoint
  /\ \E s \in Slots :
       freeSlot(s) /\ setInv(s, started(jobType, firstStep(jobType), "none"))
  /\ UNCHANGED <<candVars, chromeVars, visitVars, metadataTasks, dbVars, now, timers, startupPending, hist>>

\* analyzeExistingHistory and recalculateCandidateWindowVisits are exported
\* and called from outside the background script.
Call(jobType, overlap) ==
  /\ jobType \in {"historyAnalysis", "candidateRecalculation"}
  /\ mayStart(overlap)
  /\ underCap(jobType)
  /\ roomForCheckpoint
  /\ \E s \in Slots :
       freeSlot(s) /\ setInv(s, started(jobType, firstStep(jobType), "none"))
  /\ UNCHANGED <<candVars, chromeVars, visitVars, metadataTasks, dbVars, now, timers,
                 startupPending, hist>>

\* A continuation scheduled with setTimeout runs.
Timer(jobType, overlap) ==
  /\ timers[jobType] > 0
  /\ underCap(jobType)
  /\ mayStart(overlap)
  /\ \E s \in Slots :
       freeSlot(s) /\ setInv(s, started(jobType, firstStep(jobType), "none"))
  /\ timers' = [timers EXCEPT ![jobType] = @ - 1]
  /\ UNCHANGED <<candVars, chromeVars, visitVars, metadataTasks, dbVars, now, startupPending, hist>>

\* The host process is torn down between two chunks and started again: the
\* pending timers are gone, the database is kept, onStartup will fire.
Restart ==
  /\ allIdle
  /\ ~startupPending
  /\ timers' = [j \in JobTypes |-> 0]
  /\ startupPending' = TRUE
  /\ hist' = [hist EXCEPT
                !.restarts = IF runningIds(checkpoints, "categorize") # {}
                               THEN @ \cup {hist.chunks} ELSE @,
                !.atRestart = {j \in JobTypes : runningIds(checkpoints, j) # {}},
                !.reinvoked = {}]
  /\ UNCHANGED <<candVars, chromeVars, visitVars, dbVars, now, inv>>
  /\ metadataTasks' = {}

\* chrome.runtime.onStartup fires.
Startup(overlap) ==
  /\ startupPending
  /\ mayStart(overlap)
  /\ \E s \in Slots :
       freeSlot(s) /\ setInv(s, started("startup", "startupCategorize", "none"))
  /\ startupPending' = FALSE
  /\ UNCHANGED <<candVars, chromeVars, visitVars, metadataTasks, dbVars, now, timers, hist>>

\* onStartup: const categorizationCheckpoint = await loadCheckpoint('categorize');
\* if there is one, await runCategorizationTask()
StartupCategorize(s) ==
  /\ inv[s].job = "startup" /\ inv[s].pc = "startupCategorize"
  /\ IF loadCheckpoint("categorize") # NoCheckpoint
       THEN /\ setInv(s, started("categorize", "load", "startup"))
            /\ hist' = [hist EXCEPT !.reinvoked = @ \cup {"categorize"}]
       ELSE /\ setInv(s, [inv[s] EXCEPT !.pc = "startupArchive"])
            /\ UNCHANGED hist
  /\ UNCHANGED <<candVars, chromeVars, visitVars, metadataTasks, dbVars, now, timers, startupPending>>

\* onStartup: const archivingCheckpoint = await loadCheckpoint('archive');
\* if there is one, await runArchivingTask(); the handler ends.
StartupArchive(s) ==
  /\ inv[s].job = "startup" /\ inv[s].pc = "startupArchive"
  /\ IF loadCheckpoint("archive") # NoCheckpoint
       THEN /\ setInv(s, started("archive", "settings", "startup"))
            /\ hist' = [hist EXCEPT !.reinvoked = @ \cup {"archive"}]
       ELSE /\ setInv(s, IdleInv)
            /\ UNCHANGED hist
  /\ UNCHANGED <<candVars, chromeVars, visitVars, metadataTasks, dbVars, now, timers, startupPending>>

\* A day passes between two handlers.
Tick ==
  /\ allIdle
  /\ now < MaxDay
  /\ now' = now + 1
  /\ hist' = [hist EXCEPT !.archClean = FALSE]
  /\ UNCHANGED <<candVars, chromeVars, visitVars, metadataTasks, dbVars, inv, timers, startupPending>>

(***************************************************************************)
(* Initial states                                                           *)
(***************************************************************************)
bookmarkOf(url, category, lastVisited, isPinned) ==
  [newBookmark(url, TitlePage) EXCEPT
     !.category = category, !.lastVisited = lastVisited, !.isPinned = isPinned]

\* db.categories after initialize(), with the counts of the given bookmarks.
categoriesOf(table) ==
  [c \in CategoryIds |-> Cardinality({id \in DOMAIN table : table[id].category = c})]

InitHist ==
  [classified |-> [id \in 1..MaxBookmarks |-> 0], eligible |-> {}, chunks |-> 0,
   restarts |-> {}, catRunId |-> 0, archStart |-> <<>>, archClean |-> FALSE,
   archRunId |-> 0, archived |-> {}, faults |-> 0, faulted |-> {},
   atRestart |-> {}, reinvoked |-> {}, tracks |-> 0, promotions |-> {},
   visits |-> 0, edits |-> 0, start |-> <<>>, invoked |-> {},
   terminalAt |-> <<>>]

InitWith(profiles, day, settingsChoices) ==
  /\ bookmarks \in [1..MaxBookmarks -> profiles]
  /\ categories = categoriesOf(bookmarks)
  /\ settings \in settingsChoices
  /\ checkpoints = [id \in {} |-> NoCheckpoint]
  /\ nextCheckpointId = 1
  /\ now = day
  /\ inv = [s \in Slots |-> IdleInv]
  /\ timers = [j \in JobTypes |-> 0]
  /\ startupPending = FALSE
  /\ hist = InitHist
  /\ candidates = <<>>
  /\ nextCandidateId = 1
  /\ chromeNextId = MaxBookmarks + 1
  /\ createdEvents = <<>>
  /\ historyItems = <<>>
  /\ historyPermission = FALSE
  /\ metadataTasks = {}
  /\ visitHistory = <<>>
  /\ pending = <<>>

\* Bookmarks as the categorization job meets them: without a category or
\* 'uncategorized', of a URL a rule matches or of one no rule matches, and
\* bookmarks that have a category.
CategorizeProfiles ==
  { bookmarkOf(UrlGithubFoo, NoCategory, 0, FALSE),
    bookmarkOf(UrlExampleA, NoCategory, 0, FALSE),
    bookmarkOf(UrlExampleB, Uncategorized, 0, FALSE),
    bookmarkOf(UrlGithubFoo, "development", 0, FALSE) }

\* Bookmarks as the archiving job meets them: two URLs of one canonical form
\* and one of another, never visited or last visited on any day, pinned or not.
ArchiveProfiles ==
  { bookmarkOf(url, "news", lastVisited, isPinned) :
      url \in {UrlExampleATracked, UrlExampleA, UrlExampleB},
      lastVisited \in 0..MaxDay, isPinned \in BOOLEAN }

Init == InitWith(CategorizeProfiles, MaxDay, {DefaultSettings})

\* The same without the 'uncategorized' bookmark, where handlers overlap.
OverlapProfiles ==
  { bookmarkOf(UrlGithubFoo, NoCategory, 0, FALSE),
    bookmarkOf(UrlExampleA, NoCategory, 0, FALSE),
    bookmarkOf(UrlGithubFoo, "development", 0, FALSE) }

InitOverlap == InitWith(OverlapProfiles, MaxDay, {DefaultSettings})

InitArchive ==
  InitWith(ArchiveProfiles, MaxDay,
           {DefaultSettings, [DefaultSettings EXCEPT !.autoArchive = FALSE]})

\* A candidate as trackCandidateUrl and addToCandidate store it.
candidateOf(id, url, title, visitCount, lastSeen) ==
  [id |-> id, url |-> url, normalizedUrl |-> normalizedUrlOf(url),
   title |-> title, domain |-> extractDomainLower(url),
   firstSeen |-> lastSeen, lastSeen |-> lastSeen, visitCount |-> visitCount,
   weeklyVisits |-> 1, monthlyVisits |-> 1, quarterlyVisits |-> 1,
   status |-> "tracking"]

\* A chrome.history.HistoryItem
historyItem(url, title, lastVisitTime, visitCount) ==
  [url |-> url, title |-> title, lastVisitTime |-> lastVisitTime,
   visitCount |-> visitCount]

\* Bookmarks of the behaviours with all four jobs: one a rule classifies,
\* not visited for three days, and one no rule classifies, visited yesterday.
\* They alternate, or all are of one kind.
Classified == bookmarkOf(UrlGithubFoo, NoCategory, Today - 3, FALSE)

Unclassified == bookmarkOf(UrlExampleA, NoCategory, Today - 1, FALSE)

\* Candidates and history. With bookmarks of both kinds: a candidate over a
\* threshold whose URL is bookmarked, a stale one and one under the
\* thresholds, and a history of two visits to one canonical URL, a visit to
\* the candidate under the thresholds and visits before the quarter. With
\* classified bookmarks: a full chunk of candidates under the thresholds and
\* no permission to read the history. With unclassified bookmarks: a
\* candidate over a threshold, and a history of an excluded domain, a URL
\* over a threshold and one under the thresholds.
Populations ==
  { [bookmarks |-> [n \in 1..MaxBookmarks |->
                      IF n % 2 = 1 THEN Classified ELSE Unclassified],
     candidates |-> << candidateOf(1, UrlGithubFoo, TitlePage, 5, Today - 1),
                       candidateOf(2, UrlExampleATracked, TitlePage, 2, Today - 95),
                       candidateOf(3, UrlExampleB, TitlePage, 1, Today - 1) >>,
     historyItems |-> << historyItem(UrlExampleA, <<>>, Today - 2, 1),
                         historyItem(UrlExampleATracked, TitlePage, Today - 1, 0),
                         historyItem(UrlExampleB, TitlePage, Today - 1, 1),
                         historyItem(UrlGithubFoo, TitlePage, Today - 95, 9) >>,
     historyPermission |-> TRUE],
    [bookmarks |-> [n \in 1..MaxBookmarks |-> Classified],
     candidates |-> << candidateOf(1, UrlExampleB, TitlePage, 1, Today - 1),
                       candidateOf(2, UrlExampleA, TitlePage, 1, Today - 1) >>,
     historyItems |-> <<>>,
     historyPermission |-> FALSE],
    [bookmarks |-> [n \in 1..MaxBookmarks |-> Unclassified],
     candidates |-> << candidateOf(1, UrlGithubDocs, TitleCode, 5, Today - 1) >>,
     historyItems |-> << historyItem(UrlChase, TitlePage, Today - 1, 9),
                         historyItem(UrlGithubFoo, TitlePage, Today - 1, 5),
                         historyItem(UrlExampleB, TitlePage, Today - 40, 1) >>,
     historyPermission |-> TRUE] }

InitSequential ==
  /\ settings = DefaultSettings
  /\ checkpoints = [id \in {} |-> NoCheckpoint]
  /\ nextCheckpointId = 1
  /\ now = Today
  /\ inv = [s \in Slots |-> IdleInv]
  /\ timers = [j \in JobTypes |-> 0]
  /\ startupPending = FALSE
  /\ hist = InitHist
  /\ \E population \in Populations :
       /\ bookmarks = population.bookmarks
       /\ categories = categoriesOf(population.bookmarks)
       /\ candidates = population.candidates
       /\ nextCandidateId = Len(population.candidates) + 1
       /\ historyItems = population.historyItems
       /\ historyPermission = population.historyPermission
  /\ chromeNextId = MaxBookmarks + 1
  /\ createdEvents = <<>>
  /\ metadataTasks = {}
  /\ visitHistory = <<>>
  /\ pending = <<>>


(***************************************************************************)
(* Specifications                                                           *)
(***************************************************************************)
CategorizeStep(s) ==
  \/ CatLoad(s)
  \/ CatCount(s)
  \/ CatCreate(s)
  \/ CatQuery(s)
  \/ CatUpdate(s)
  \/ CatIncrementGet(s)
  \/ CatIncrementPut(s)
  \/ CatSave(s)
  \/ CatClear(s)

ArchiveStep(s) ==
  \/ ArchSettings(s)
  \/ ArchLoad(s)
  \/ ArchCount(s)
  \/ ArchCountDuplicates(s)
  \/ ArchCreate(s)
  \/ ArchInactive(s)
  \/ ArchArchiveInactive(s)
  \/ ArchDuplicates(s)
  \/ ArchBulkGet(s)
  \/ ArchArchiveDuplicate(s)
  \/ ArchSave(s)
  \/ ArchRemaining(s)
  \/ ArchRemainingDuplicates(s)
  \/ ArchClear(s)

\* Categorization handlers whose awaits interleave: the periodic alarm and
\* the continuation a chunk schedules.
Next ==
  \/ Alarm("categorize", TRUE)
  \/ Timer("categorize", TRUE)
  \/ \E s \in Slots : CategorizeStep(s)

Spec == InitOverlap /\ [][Next]_vars

\* The categorization job, one handler at a time, with restarts of the host
\* between chunks.
NextCat ==
  \/ Alarm("categorize", FALSE)
  \/ Timer("categorize", FALSE)
  \/ Restart
  \/ Startup(FALSE)
  \/ \E s \in Slots : StartupCategorize(s) \/ StartupArchive(s) \/ CategorizeStep(s)

SpecCat == Init /\ [][NextCat]_vars

\* The archiving job, one handler at a time.
NextArch ==
  \/ Alarm("archive", FALSE)
  \/ Timer("archive", FALSE)
  \/ \E s \in Slots : ArchiveStep(s)

SpecArch == InitArchive /\ [][NextArch]_vars


RecalculationStep(s) ==
  \/ RecalcSettings(s)
  \/ RecalcLoad(s)
  \/ RecalcCount(s)
  \/ RecalcCreate(s)
  \/ RecalcQuery(s)
  \/ RecalcUpdate(s)
  \/ RecalcDelete(s)
  \/ RecalcSave(s)
  \/ RecalcRemaining(s)
  \/ RecalcClear(s)

PromoteStep(s) ==
  \/ PromoteFind(s)
  \/ PromoteExisting(s)
  \/ PromoteChrome(s)
  \/ PromoteAdd(s)
  \/ PromoteCategoryGet(s)
  \/ PromoteCategoryPut(s)
  \/ PromoteMark(s)

HistoryStep(s) ==
  \/ HistPermission(s)
  \/ HistSettings(s)
  \/ HistLoad(s)
  \/ HistSearch(s)
  \/ HistCreate(s)
  \/ HistIsBookmarked(s)
  \/ HistExcludedSettings(s)
  \/ HistExcludedRules(s)
  \/ CreateChrome(s)
  \/ CreateAdd(s)
  \/ CreateCategoryGet(s)
  \/ CreateCategoryPut(s)
  \/ CandidateFind(s)
  \/ CandidateUpdate(s)
  \/ CandidateAdd(s)
  \/ HistSave(s)
  \/ HistClear(s)
  \/ HistAnalyzedAt(s)

AddedStep(s) ==
  \/ AddedAdd(s)
  \/ AddedIncrementGet(s)
  \/ AddedIncrementPut(s)
  \/ AddedNotify(s)

\* The four jobs, one invocation at a time, with the events Chrome raises
\* for the bookmarks they create.
SequentialJobs ==
  \/ Alarm("categorize", FALSE)
  \/ Alarm("archive", FALSE)
  \/ Call("historyAnalysis", FALSE)
  \/ Call("candidateRecalculation", FALSE)
  \/ \E jobType \in JobTypes : Timer(jobType, FALSE)
  \/ Created
  \/ FetchMetadata
  \/ \E s \in Slots :
       \/ CategorizeStep(s)
       \/ ArchiveStep(s)
       \/ RecalculationStep(s)
       \/ PromoteStep(s)
       \/ HistoryStep(s)
       \/ AddedStep(s)

\* ... with restarts of the host between chunks.
NextSeq ==
  \/ SequentialJobs
  \/ Restart
  \/ Startup(FALSE)
  \/ \E s \in Slots : StartupCategorize(s) \/ StartupArchive(s)

SpecSeq == InitSequential /\ [][NextSeq]_vars

\* ... with an awaited operation that is rejected.
NextFault ==
  \/ SequentialJobs
  \/ \E s \in Slots : Throw(s) \/ Catch(s)

SpecFault == InitSequential /\ [][NextFault]_vars

\* Visits to pages that are not bookmarked: a candidate whose URL differs
\* by a tracking parameter from a bookmark's and meets the weekly threshold,
\* and one that meets the quarterly threshold only; auto-bookmarking on or
\* off.
TrackedCandidates ==
  << withWindows(candidateOf(1, UrlExampleATracked, TitlePage, 2, Today - 1),
                 [weeklyVisits |-> 2, monthlyVisits |-> 2, quarterlyVisits |-> 2]),
     withWindows(candidateOf(2, UrlGithubDocs, TitleCode, 5, Today - 1),
                 [weeklyVisits |-> 1, monthlyVisits |-> 2, quarterlyVisits |-> 5]) >>

InitTrack ==
  /\ bookmarks = << bookmarkOf(UrlExampleA, NoCategory, Today - 1, FALSE) >>
  /\ categories = categoriesOf(bookmarks)
  /\ settings \in {DefaultSettings, [DefaultSettings EXCEPT !.autoBookmarkEnabled = FALSE]}
  /\ checkpoints = [id \in {} |-> NoCheckpoint]
  /\ nextCheckpointId = 1
  /\ now = Today
  /\ inv = [s \in Slots |-> IdleInv]
  /\ timers = [j \in JobTypes |-> 0]
  /\ startupPending = FALSE
  /\ hist = InitHist
  /\ candidates = TrackedCandidates
  /\ nextCandidateId = Len(TrackedCandidates) + 1
  /\ chromeNextId = MaxBookmarks + 1
  /\ createdEvents = <<>>
  /\ historyItems = <<>>
  /\ historyPermission = FALSE
  /\ metadataTasks = {}
  /\ visitHistory = <<>>
  /\ pending = <<>>

\* The visits trackCandidateUrl is called with: to the two candidates, to a
\* page that is no candidate yet, without a title, and to an excluded domain.
TrackVisits ==
  { [url |-> UrlExampleATracked, title |-> TitlePage],
    [url |-> UrlGithubDocs, title |-> TitleCode],
    [url |-> UrlExampleB, title |-> <<>>],
    [url |-> UrlChase, title |-> TitlePage] }

TrackStep(s) ==
  \/ TrackExcluded(s)
  \/ TrackSettings(s)
  \/ TrackFind(s)
  \/ TrackUpdate(s)
  \/ TrackAdd(s)
  \/ CheckGet(s)
  \/ CheckSettings(s)
  \/ CheckReturn(s)

\* Calls of trackCandidateUrl and dismissCandidate whose awaits interleave,
\* with the events Chrome raises for the bookmarks a promotion creates.
NextTrack ==
  \/ \E visit \in TrackVisits : Track(visit.url, visit.title)
  \/ \E id \in DOMAIN candidates : Dismiss(id)
  \/ Created
  \/ \E s \in Slots : TrackStep(s) \/ PromoteStep(s) \/ AddedStep(s)

SpecTrack == InitTrack /\ [][NextTrack]_vars

\* The titles the candidate of https://news.example.com may carry: the
\* domain (`title || domain`) or the title of the page.
NewsTitles == {NewsExampleCom, TitlePage, TitleLatestNews}

\* Candidates as the recalculation meets them: the one of
\* https://news.example.com with five visits, last seen 40 days ago; one
\* seen yesterday that a rule classifies; one whose URL is bookmarked; one
\* not seen for 95 days.
RecalcCandidates(newsTitle) ==
  << candidateOf(1, UrlNewsExample, newsTitle, 5, Today - 40),
     candidateOf(2, UrlGithubDocs, TitleCode, 5, Today - 1),
     candidateOf(3, UrlExampleA, TitlePage, 5, Today - 1),
     candidateOf(4, UrlExampleB, TitlePage, 2, Today - 95) >>

InitRecalc ==
  /\ bookmarks = << bookmarkOf(UrlExampleA, NoCategory, Today - 1, FALSE) >>
  /\ categories = categoriesOf(bookmarks)
  /\ settings = DefaultSettings
  /\ checkpoints = [id \in {} |-> NoCheckpoint]
  /\ nextCheckpointId = 1
  /\ now = Today
  /\ inv = [s \in Slots |-> IdleInv]
  /\ timers = [j \in JobTypes |-> 0]
  /\ startupPending = FALSE
  /\ hist = InitHist
  /\ \E newsTitle \in NewsTitles : candidates = RecalcCandidates(newsTitle)
  /\ nextCandidateId = 5
  /\ chromeNextId = MaxBookmarks + 1
  /\ createdEvents = <<>>
  /\ historyItems = <<>>
  /\ historyPermission = FALSE
  /\ metadataTasks = {}
  /\ visitHistory = <<>>
  /\ pending = <<>>

\* recalculateCandidateWindowVisits, one invocation at a time, with the
\* events Chrome raises for the bookmarks it creates.
NextRecalc ==
  \/ Call("candidateRecalculation", FALSE)
  \/ Timer("candidateRecalculation", FALSE)
  \/ Created
  \/ FetchMetadata
  \/ \E s \in Slots : RecalculationStep(s) \/ PromoteStep(s) \/ AddedStep(s)

SpecRecalc == InitRecalc /\ [][NextRecalc]_vars

\* The bookmarks the user adds and the URLs and titles an edit gives one:
\* https://github.com/foo and a docs page of the same site, and two URLs of
\* one canonical form.
EventUrls == {UrlGithubFoo, UrlGithubDocs, UrlExampleA, UrlExampleATracked}

EventTitles == {TitlePage, TitleCode}

\* An installation without bookmarks yet.
InitEvents ==
  /\ bookmarks = <<>>
  /\ categories = categoriesOf(bookmarks)
  /\ settings = DefaultSettings
  /\ checkpoints = [id \in {} |-> NoCheckpoint]
  /\ nextCheckpointId = 1
  /\ now = Today
  /\ inv = [s \in Slots |-> IdleInv]
  /\ timers = [j \in JobTypes |-> 0]
  /\ startupPending = FALSE
  /\ hist = InitHist
  /\ candidates = <<>>
  /\ nextCandidateId = 1
  /\ chromeNextId = MaxBookmarks + 1
  /\ createdEvents = <<>>
  /\ historyItems = <<>>
  /\ historyPermission = FALSE
  /\ metadataTasks = {}
  /\ visitHistory = <<>>
  /\ pending = <<>>

\* The onCreated and onChanged events of bookmarks the user adds and edits.
NextEvents ==
  \/ \E url \in EventUrls, title \in EventTitles : UserCreates(url, title)
  \/ \E id \in DOMAIN bookmarks, url \in EventUrls \cup {NoUrl},
        title \in EventTitles : Changed(id, url, title)
  \/ Created
  \/ FetchMetadata
  \/ \E s \in Slots : AddedStep(s) \/ ChangedGet(s) \/ ChangedUpdate(s)

SpecEvents == InitEvents /\ [][NextEvents]_vars

\* The URLs normalizeURL is applied to: hosts with no, one and two 'www.'
\* prefixes and in upper case, paths that end in no, one and two slashes,
\* queries with and without tracking parameters, fragments and SPA routes.
WwwExampleCom == <<"w", "w", "w", ".">> \o ExampleCom

CanonHosts ==
  { ExampleCom, WwwExampleCom, <<"w", "w", "w", ".">> \o WwwExampleCom,
    <<"W", "W", "W", ".", "E", "x", "a", "m", "p", "l", "e", ".", "c", "o", "m">> }

CanonPaths ==
  { <<>>, <<"/">>, <<"/", "a">>, <<"/", "a", "/">>, <<"/", "a", "/", "/">>,
    <<"/", "/">> }

ParamId == << <<"i", "d">>, <<"1">> >>

ParamB == << <<"b">>, <<"2">> >>

ParamUtm == << <<"u", "t", "m", "_", "s", "o", "u", "r", "c", "e">>, <<"x">> >>

CanonSearches ==
  { <<>>, <<ParamUtm>>, <<ParamId>>, <<ParamId, ParamB>>, <<ParamUtm, ParamId, ParamB>> }

CanonHashes == { <<>>, <<"#", "t", "o", "p">>, <<"#", "/", "r">> }

CanonInputs ==
  { mkUrl(host, pathname, search, hash) :
      host \in CanonHosts, pathname \in CanonPaths, search \in CanonSearches,
      hash \in CanonHashes }
  \cup { badUrl(<<"n", "o", "t", " ", "a", " ", "u", "r", "l">>) }

InitCanon ==
  /\ bookmarks = <<>>
  /\ categories = categoriesOf(bookmarks)
  /\ settings = DefaultSettings
  /\ checkpoints = [id \in {} |-> NoCheckpoint]
  /\ nextCheckpointId = 1
  /\ now = Today
  /\ \E url \in CanonInputs :
       inv = [s \in Slots |->
                IF s = 1 THEN [started("normalizeURL", "call", "none") EXCEPT !.url = url]
                ELSE IdleInv]
  /\ timers = [j \in JobTypes |-> 0]
  /\ startupPending = FALSE
  /\ hist = InitHist
  /\ candidates = <<>>
  /\ nextCandidateId = 1
  /\ chromeNextId = MaxBookmarks + 1
  /\ createdEvents = <<>>
  /\ historyItems = <<>>
  /\ historyPermission = FALSE
  /\ metadataTasks = {}
  /\ visitHistory = <<>>
  /\ pending = <<>>

NextCanon == \E s \in Slots : Normalize(s)

SpecCanon == InitCanon /\ [][NextCanon]_vars

(***************************************************************************)
(* Properties                                                               *)
(***************************************************************************)
completed(id) == id \in DOMAIN checkpoints /\ checkpoints[id].status = "completed"

holdsCheckpoint(s) == active(s) /\ inv[s].checkpoint.id # 0

\* C1: two invocations of the categorization job whose storage awaits
\* interleave leave at most one running 'categorize' checkpoint, and the
\* handlers in progress all work on that one record.
C1_OneRunningWhenInterleaved ==
  /\ Cardinality(runningIds(checkpoints, "categorize")) <= 1
  /\ \A s1, s2 \in Slots :
       holdsCheckpoint(s1) /\ holdsCheckpoint(s2)
         /\ inv[s1].checkpoint.status = "running"
         /\ inv[s2].checkpoint.status = "running"
         /\ inv[s1].checkpoint.id \in runningIds(checkpoints, "categorize")
         /\ inv[s2].checkpoint.id \in runningIds(checkpoints, "categorize")
       => inv[s1].checkpoint.id = inv[s2].checkpoint.id

\* C3: a categorization run that was restarted after its first chunk and
\* resumed to the end has classified every bookmark that was eligible at its
\* start exactly once, and its checkpoint is completed with
\* processedCount = totalItems.
C3_ResumedRunExactlyOnce ==
  (completed(hist.catRunId) /\ hist.restarts = {1})
    => /\ checkpoints[hist.catRunId].processedCount
            = checkpoints[hist.catRunId].totalItems
       /\ \A id \in hist.eligible : hist.classified[id] = 1

\* C4: the archiving job sets isArchived on no pinned bookmark.
C4_PinnedNeverArchived ==
  \A id \in hist.archived : ~bookmarks[id].isPinned

\* The bookmarks of the table that share the content hash of bookmark id.
sameHash(table, id) ==
  {o \in DOMAIN table : table[o].contentHash = table[id].contentHash}

\* An archiving run reached completed and nothing but the run changed the
\* bookmarks or the day since it started.
archiveRunDone == completed(hist.archRunId) /\ hist.archClean

\* C5: two bookmarks of one canonical URL, not pinned, not archived, last
\* visited on day T and on day T + 1, both inactive: after the archiving run
\* the one of day T + 1 is active and the other is archived.
C5_InactiveDuplicateKeepsNewest ==
  archiveRunDone =>
    \A a, b \in DOMAIN hist.archStart :
      LET A == hist.archStart[a]
          B == hist.archStart[b]
      IN  ( /\ sameHash(hist.archStart, a) = {a, b}
            /\ ~A.isPinned /\ ~A.isArchived /\ ~B.isPinned /\ ~B.isArchived
            /\ A.lastVisited # 0 /\ B.lastVisited = A.lastVisited + 1
            /\ inactive(A, checkpoints[hist.archRunId].startTime, threshold)
            /\ inactive(B, checkpoints[hist.archRunId].startTime, threshold) )
          => (bookmarks[a].isArchived /\ ~bookmarks[b].isArchived)

\* The groups of C6 at the start of the run: two or more bookmarks that are
\* not archived, share a content hash, have pairwise distinct lastVisited
\* and of which none is inactive.
distinctActiveGroup(G) ==
  LET start == hist.archStart
  IN  /\ Cardinality(G) >= 2
      /\ \E id \in G : G = {o \in sameHash(start, id) : ~start[o].isArchived}
      /\ \A x, y \in G : x # y => start[x].lastVisited # start[y].lastVisited
      /\ \A x \in G :
           /\ ~start[x].isArchived
           /\ ~inactive(start[x], checkpoints[hist.archRunId].startTime, threshold)

newest(G) ==
  CHOOSE x \in G : \A y \in G : hist.archStart[y].lastVisited <= hist.archStart[x].lastVisited

\* C6: of N >= 2 bookmarks that are not archived, share a content hash, have
\* pairwise distinct lastVisited and are not inactive, the archiving run
\* leaves exactly the one with the greatest lastVisited not archived.
C6_DuplicatesKeepNewest ==
  archiveRunDone =>
    \A G \in SUBSET (DOMAIN hist.archStart) :
      distinctActiveGroup(G)
        => \A x \in G : bookmarks[x].isArchived <=> (x # newest(G))

C6_Witness ==
  /\ archiveRunDone
  /\ \E G \in SUBSET (DOMAIN hist.archStart) :
       /\ distinctActiveGroup(G)
       /\ Cardinality(G) = 3
       /\ \A x \in G : bookmarks[x].isArchived <=> (x # newest(G))

\* C2: with one job invocation at a time and restarts between chunks, no job
\* type has more than one checkpoint of status running; the save after a
\* chunk writes the record the job created at its start.
C2_OneRunningPerJobType ==
  \A jobType \in JobTypes : Cardinality(runningIds(checkpoints, jobType)) <= 1

\* A run saved its checkpoint after a chunk, is still running, and the host
\* restarted before the next chunk.
C2_Witness ==
  /\ startupPending
  /\ \E id \in DOMAIN checkpoints :
       /\ checkpoints[id].status = "running"
       /\ checkpoints[id].processedCount > 0
       /\ runningIds(checkpoints, checkpoints[id].jobType) = {id}

\* C7: when onStartup has run after a restart, every job type that had a
\* running checkpoint at the restart was invoked by it.
C7_StartupResumesEveryJob ==
  (hist.atRestart # {} /\ ~startupPending /\ allIdle)
    => hist.atRestart \subseteq hist.reinvoked

\* C8: the checkpoint that was running when an invocation of the
\* categorization or archiving job met an error has status failed.
C8_ErrorFailsCheckpoint ==
  \A f \in hist.faulted :
    f.job \in {"categorize", "archive"} => checkpoints[f.id].status = "failed"

\* C9: the checkpoint that was running when an invocation of any of the four
\* jobs met an error is not running when the invocation has ended.
C9_ErrorLeavesNoRunningCheckpoint ==
  \A f \in hist.faulted : checkpoints[f.id].status # "running"

\* A handler is between the query of its chunk and the save of its checkpoint.
inFlight(s) ==
  /\ inv[s].job \in {"categorize", "archive"}
  /\ inv[s].pc \in {"update", "incrementGet", "incrementPut", "save",
                    "archiveInactive", "archiveDuplicate"}

chunkIds(s) ==
  {IF inv[s].job = "categorize" THEN inv[s].chunk[n].id ELSE inv[s].chunk[n] :
     n \in 1..Len(inv[s].chunk)}

\* C10: no bookmark is in the chunks of two handlers of one job type that
\* are in flight at the same time.
C10_OneChunkInFlight ==
  \A s1, s2 \in Slots :
    (s1 # s2 /\ inFlight(s1) /\ inFlight(s2) /\ inv[s1].job = inv[s2].job)
      => chunkIds(s1) \cap chunkIds(s2) = {}


(***************************************************************************)
(* Candidates (C11 to C17)                                                  *)
(***************************************************************************)
\* C11: promoteToBookmark of a candidate whose canonical URL is the canonical
\* URL of an existing bookmark creates no second bookmark, returns the
\* existing bookmark's id and leaves the candidate promoted.
C11_PromoteOfBookmarkedUrl ==
  \A p \in hist.promotions :
    p.twins # {} =>
      /\ p.created = 0
      /\ p.result \in p.twins
      /\ p.status = "promoted"

\* C12: in every state at most one candidate with status tracking has a
\* given canonical URL, also when two calls of trackCandidateUrl for one
\* unknown canonical URL interleave between the lookup and the insert.
C12_OneTrackingCandidatePerUrl ==
  \A a, b \in DOMAIN candidates :
    /\ candidates[a].status = "tracking"
    /\ candidates[b].status = "tracking"
    /\ candidates[a].normalizedUrl = candidates[b].normalizedUrl
    => a = b

\* C13: a call of trackCandidateUrl for a URL that has a tracking candidate
\* adds one to the candidate's visit count and to each of its weekly,
\* monthly and quarterly counts (and the threshold check that follows in
\* the call sees the incremented counts).
C13_TrackIncrementsCounters ==
  [][\A s \in Slots :
       ( /\ inv[s].job = "track" /\ inv[s].pc = "update"
         /\ inv'[s].pc = "checkGet"
         /\ inv[s].existing \in DOMAIN candidates )
       => LET before == candidates[inv[s].existing]
              after == candidates'[inv[s].existing]
          IN  /\ after.visitCount = before.visitCount + 1
              /\ after.weeklyVisits = before.weeklyVisits + 1
              /\ after.monthlyVisits = before.monthlyVisits + 1
              /\ after.quarterlyVisits = before.quarterlyVisits + 1]_vars

\* C14: the statuses promoted and dismissed are terminal: a candidate that
\* has one of them keeps it in every later step.
C14_PromotedAndDismissedAreTerminal ==
  [][\A id \in DOMAIN candidates :
       candidates[id].status \in {"promoted", "dismissed"}
       => /\ id \in DOMAIN candidates'
          /\ candidates'[id].status = candidates[id].status]_vars

\* The step of slot s in which chrome.bookmarks.create of promoteToBookmark
\* is rejected.
createRejected(s) ==
  /\ inv[s].pc = "promoteChrome"
  /\ inv'[s].pc \notin {"promoteChrome", "promoteAdd"}

\* A promotion of the candidate has returned none without creating a node.
rejectedBefore(id) ==
  \E p \in hist.promotions : p.candidate = id /\ p.result = 0 /\ p.created = 0

\* C15: when chrome.bookmarks.create fails in promoteToBookmark, the call
\* returns none and has written nothing: no Bookmark is added, no category
\* count and no candidate changes (the lookup before it writes nothing
\* either), and the threshold check of a later visit of the candidate calls
\* promoteToBookmark again.
C15_FailedCreationLeavesCandidate ==
  [][\A s \in Slots :
       /\ createRejected(s)
          => /\ promoteResult(inv'[s]) = 0
             /\ bookmarks' = bookmarks
             /\ categories' = categories
             /\ candidates' = candidates
       /\ (inv[s].pc = "promoteFind" /\ inv'[s] # inv[s])
          => /\ bookmarks' = bookmarks
             /\ categories' = categories
             /\ candidates' = candidates
       /\ ( /\ inv[s].job = "track" /\ inv[s].pc = "checkSettings"
            /\ inv'[s] # inv[s]
            /\ rejectedBefore(inv[s].candidate.id)
            /\ settings.exists /\ settings.autoBookmarkEnabled
            /\ \/ inv[s].candidate.weeklyVisits >= settings.weeklyVisitThreshold
               \/ inv[s].candidate.monthlyVisits >= settings.monthlyVisitThreshold
               \/ inv[s].candidate.quarterlyVisits >= settings.quarterlyVisitThreshold )
          => inv'[s].pc = "promoteFind"]_vars

\* A promotion of a candidate was rejected, the candidate is still tracking,
\* and a later call of trackCandidateUrl is in promoteToBookmark for it.
C15_Witness ==
  \E s \in Slots :
    /\ inv[s].job = "track"
    /\ inv[s].pc = "promoteChrome"
    /\ rejectedBefore(inv[s].candidate.id)
    /\ candidates[inv[s].candidate.id].status = "tracking"
    /\ bookmarks = << bookmarkOf(UrlExampleA, NoCategory, Today - 1, FALSE) >>

\* A window count of the candidate is at or above its threshold.
anyWindowMet(candidate, thresholds) ==
  \/ candidate.weeklyVisits >= thresholds.weeklyVisitThreshold
  \/ candidate.monthlyVisits >= thresholds.monthlyVisitThreshold
  \/ candidate.quarterlyVisits >= thresholds.quarterlyVisitThreshold

recalculated ==
  \E id \in DOMAIN checkpoints :
    checkpoints[id].jobType = "candidateRecalculation" /\ completed(id)

\* C17: after the recalculation has processed the tracking candidate of
\* https://news.example.com, whose quarterly count 5 is at the threshold 5
\* and whose weekly and monthly counts are below theirs, a Bookmark of that
\* URL exists with a category (neither absent nor 'uncategorized') and the
\* candidate is promoted.
C17_NewsCandidatePromotedWithCategory ==
  recalculated =>
    /\ candidates[1].status = "promoted"
    /\ \E id \in DOMAIN bookmarks :
         /\ bookmarks[id].url = UrlNewsExample
         /\ bookmarks[id].category \notin {NoCategory, Uncategorized}

(***************************************************************************)
(* Classification and canonical URLs (C18 to C20)                           *)
(***************************************************************************)
\* C18: the classification handleBookmarkAdded computes for a bookmark of
\* https://github.com/foo is 'development' with confidence >= 0.8, whatever
\* the title.
C18_GithubFooIsDevelopment ==
  \A s \in Slots :
    (inv[s].job = "created" /\ inv[s].bookmark.url = UrlGithubFoo)
    => LET result == classification(inv[s].bookmark.url, inv[s].bookmark.title)
       IN  /\ result.category = "development"
           /\ result.confidence >= 800

\* C19: canonicalization is idempotent: normalizeURL of the URL
\* normalizeURL returned is that URL again, for every URL of the inputs.
C19_CanonicalizationIdempotent ==
  \A s \in Slots :
    (inv[s].job = "normalizeURL" /\ Len(inv[s].returned) = 2)
    => inv[s].returned[2] = inv[s].returned[1]

\* The ids of one group of findDuplicates over the bookmarks not archived.
duplicateGroups ==
  LET groups == findDuplicates(bookmarks, notArchivedIds(bookmarks))
  IN  {elems(groups[n]) : n \in 1..Len(groups)}

\* C20: when the handlers of the created and changed events have ended, any
\* two stored bookmarks that are not archived and whose current URLs have
\* one canonical form carry equal content hashes and are in one group of
\* findDuplicates.
C20_EqualCanonicalUrlsAreDuplicates ==
  (allIdle /\ createdEvents = <<>>) =>
    \A a, b \in DOMAIN bookmarks :
      ( /\ a # b
        /\ ~bookmarks[a].isArchived /\ ~bookmarks[b].isArchived
        /\ normalizedUrlOf(bookmarks[a].url) = normalizedUrlOf(bookmarks[b].url) )
      => /\ bookmarks[a].contentHash = bookmarks[b].contentHash
         /\ \E G \in duplicateGroups : a \in G /\ b \in G

(***************************************************************************)
(* Visit tracking (background.ts): trackVisit, called by the                *)
(* chrome.history.onVisited listener, and the TRACK_BOOKMARK_CLICK message  *)
(* of the popup. Both read the bookmark and write visitCount + 1 with no    *)
(* await between the read's result and the call of update: a handler        *)
(* creates its update transaction in the task that delivers the read, and   *)
(* IndexedDB runs the transactions on one object store in the order they    *)
(* were created. `pending` is that order.                                   *)
(***************************************************************************)
\* new URL(url).hostname
hostname(url) == parseURL(url).host

\* settings.excludedDomains.some(d => domain.includes(d)) of trackVisit
visitExcluded(url) == \E d \in settings.excludedDomains : includes(hostname(url), d)

\* An update that stores the count of a first visit whatever was read.
visitChangesFirst(at, visitCount) == [lastVisited |-> at, visitCount |-> 1]

\* {lastVisited: Date.now(), visitCount: bookmark.visitCount + 1}
visitChanges(at, visitCount) == [lastVisited |-> at, visitCount |-> visitCount + 1]

\* db.bookmarks.update(id, changes) of the two fields
updateVisit(table, id, changes) ==
  IF id \in DOMAIN table
    THEN [table EXCEPT ![id].lastVisited = changes.lastVisited,
                       ![id].visitCount = changes.visitCount]
    ELSE table

\* chrome.history.onVisited: if (historyItem.url) await trackVisit(url); the
\* listener is there when the history permission is.
Visited(url) ==
  /\ historyPermission
  /\ hist.visits < MaxVisits
  /\ \E s \in Slots :
       /\ freeSlot(s)
       /\ setInv(s, IF href(url) = <<>> THEN IdleInv
                    ELSE [started("visit", "settings", "none") EXCEPT !.url = url])
  /\ hist' = [hist EXCEPT !.visits = @ + 1]
  /\ UNCHANGED <<candVars, chromeVars, visitVars, metadataTasks, dbVars, now, timers,
                 startupPending>>

\* trackVisit: const settings = await db.settings.get('local'); no settings
\* or an excluded domain returns; otherwise the query by URL is created.
VisitSettings(s) ==
  /\ inv[s].job = "visit" /\ inv[s].pc = "settings"
  /\ IF ~settings.exists \/ visitExcluded(inv[s].url)
       THEN setInv(s, IdleInv) /\ UNCHANGED pending
       ELSE setInv(s, [inv[s] EXCEPT !.pc = "find"]) /\ pending' = Append(pending, s)
  /\ UNCHANGED <<candVars, chromeVars, visitHistory, metadataTasks, dbVars, now, timers,
                 startupPending, hist>>

\* trackVisit: const bookmarks = await db.bookmarks.where('url').equals(url)
\* .toArray(); with a bookmark, the update of bookmarks[0] is created.
VisitFind(s) ==
  /\ inv[s].job = "visit" /\ inv[s].pc = "find"
  /\ pending # <<>> /\ Head(pending) = s
  /\ LET id == firstByUrl(bookmarks, inv[s].url)
     IN  IF id = 0
           THEN setInv(s, IdleInv) /\ pending' = Tail(pending)
           ELSE /\ setInv(s, [inv[s] EXCEPT !.existing = id,
                                            !.read = bookmarks[id].visitCount,
                                            !.pc = "update"])
                /\ pending' = Append(Tail(pending), s)
  /\ UNCHANGED <<candVars, chromeVars, visitHistory, metadataTasks, dbVars, now, timers,
                 startupPending, hist>>

\* chrome.runtime.onMessage with {type: 'TRACK_BOOKMARK_CLICK', bookmarkId}:
\* db.bookmarks.get(message.bookmarkId) is created and sendResponse is called.
Click(id) ==
  /\ hist.visits < MaxVisits
  /\ \E s \in Slots :
       /\ freeSlot(s)
       /\ setInv(s, [started("click", "get", "none") EXCEPT !.existing = id])
       /\ pending' = Append(pending, s)
  /\ hist' = [hist EXCEPT !.visits = @ + 1]
  /\ UNCHANGED <<candVars, chromeVars, visitHistory, metadataTasks, dbVars, now, timers,
                 startupPending>>

\* .then(async (bookmark) => { if (bookmark) { await db.bookmarks.update(...
ClickGet(s) ==
  /\ inv[s].job = "click" /\ inv[s].pc = "get"
  /\ pending # <<>> /\ Head(pending) = s
  /\ IF inv[s].existing \in DOMAIN bookmarks
       THEN /\ setInv(s, [inv[s] EXCEPT !.read = bookmarks[inv[s].existing].visitCount,
                                        !.pc = "update"])
            /\ pending' = Append(Tail(pending), s)
       ELSE setInv(s, IdleInv) /\ pending' = Tail(pending)
  /\ UNCHANGED <<candVars, chromeVars, visitHistory, metadataTasks, dbVars, now, timers,
                 startupPending, hist>>

\* await db.bookmarks.update(bookmark.id, {lastVisited: Date.now(),
\* visitCount: bookmark.visitCount + 1}), of trackVisit and of the message
\* listener alike.
VisitUpdate(s) ==
  /\ inv[s].job \in {"visit", "click"} /\ inv[s].pc = "update"
  /\ pending # <<>> /\ Head(pending) = s
  /\ bookmarks' = updateVisit(bookmarks, inv[s].existing, visitChanges(now, inv[s].read))
  /\ pending' = Tail(pending)
  /\ setInv(s, [inv[s] EXCEPT !.pc = "history"])
  /\ UNCHANGED <<candVars, chromeVars, visitHistory, metadataTasks, categories, settings,
                 checkpoints, nextCheckpointId, now, timers, startupPending, hist>>

\* await db.visitHistory.add({bookmarkId: bookmark.id, timestamp: Date.now(),
\* duration: 0}); the handler ends.
VisitAdd(s) ==
  /\ inv[s].job \in {"visit", "click"} /\ inv[s].pc = "history"
  /\ visitHistory' = Append(visitHistory, [bookmarkId |-> inv[s].existing, timestamp |-> now])
  /\ setInv(s, IdleInv)
  /\ UNCHANGED <<candVars, chromeVars, pending, metadataTasks, dbVars, now, timers,
                 startupPending, hist>>

VisitStep(s) ==
  \/ VisitSettings(s)
  \/ VisitFind(s)
  \/ ClickGet(s)
  \/ VisitUpdate(s)
  \/ VisitAdd(s)

\* The bookmarks of the behaviours with visits: a page of example.com and
\* the page of a bank of the default excluded domains, visited before or not.
VisitedBefore == {0, 2}

InitVisit ==
  /\ \E a, b \in VisitedBefore :
       bookmarks = << [bookmarkOf(UrlExampleA, "news", IF a = 0 THEN 0 ELSE Today - 1, FALSE)
                         EXCEPT !.visitCount = a],
                      [bookmarkOf(UrlChase, "finance", IF b = 0 THEN 0 ELSE Today - 1, FALSE)
                         EXCEPT !.visitCount = b] >>
  /\ categories = categoriesOf(bookmarks)
  /\ settings \in {DefaultSettings, [DefaultSettings EXCEPT !.exists = FALSE]}
  /\ checkpoints = [id \in {} |-> NoCheckpoint]
  /\ nextCheckpointId = 1
  /\ now = Today
  /\ inv = [s \in Slots |-> IdleInv]
  /\ timers = [j \in JobTypes |-> 0]
  /\ startupPending = FALSE
  /\ hist = [InitHist EXCEPT !.start = bookmarks]
  /\ candidates = <<>>
  /\ nextCandidateId = 1
  /\ chromeNextId = MaxBookmarks + 1
  /\ createdEvents = <<>>
  /\ historyItems = <<>>
  /\ historyPermission = TRUE
  /\ metadataTasks = {}
  /\ visitHistory = <<>>
  /\ pending = <<>>

\* The pages the user visits: the two bookmarks and a page that is none.
VisitUrls == {UrlExampleA, UrlChase, UrlExampleB}

\* Visits and bookmark clicks whose handlers interleave.
NextVisit ==
  \/ \E url \in VisitUrls : Visited(url)
  \/ \E id \in DOMAIN bookmarks : Click(id)
  \/ \E s \in Slots : VisitStep(s)

SpecVisit == InitVisit /\ [][NextVisit]_vars

(***************************************************************************)
(* Visits (C25, C27)                                                        *)
(***************************************************************************)
\* C25: the visitCount of a bookmark is never negative and no step lowers
\* it, also when the handlers of onVisited events and of bookmark clicks for
\* one bookmark interleave between their read and their write.
C25_VisitCountNeverDecreases ==
  [][\A id \in DOMAIN bookmarks :
       /\ bookmarks[id].visitCount >= 0
       /\ id \in DOMAIN bookmarks'
            => bookmarks'[id].visitCount >= bookmarks[id].visitCount]_vars

\* A visit and a click of one bookmark read the same count and both wrote.
C25_Witness ==
  \E s1, s2 \in Slots :
    /\ inv[s1].job = "visit" /\ inv[s2].job = "click"
    /\ inv[s1].pc = "history" /\ inv[s2].pc = "history"
    /\ inv[s1].existing = inv[s2].existing
    /\ inv[s1].read = inv[s2].read
    /\ bookmarks[inv[s1].existing].visitCount = inv[s1].read + 1

\* The visit-history entries of a bookmark.
visitsOf(id) == {n \in 1..Len(visitHistory) : visitHistory[n].bookmarkId = id}

\* C27: a bookmark whose domain is in the excluded domains keeps its
\* visitCount and lastVisited and gets no visit-history entry, whether the
\* page is visited or the bookmark is clicked in the popup.
C27_ExcludedBookmarkNotTracked ==
  \A id \in DOMAIN bookmarks :
    (settings.exists /\ visitExcluded(bookmarks[id].url))
      => /\ bookmarks[id].visitCount = hist.start[id].visitCount
         /\ bookmarks[id].lastVisited = hist.start[id].lastVisited
         /\ visitsOf(id) = {}

(***************************************************************************)
(* handleSaveBookmark (components/Options.tsx): the user edits a bookmark   *)
(* in the options page, which works on the same database.                   *)
(***************************************************************************)
\* The user saves the form of bookmark `id` having chosen `category`; title
\* and URL are the ones the form was opened with.
Save(id, category) ==
  /\ hist.edits < MaxEdits
  /\ id \in DOMAIN bookmarks
  /\ \E s \in Slots :
       /\ freeSlot(s)
       /\ setInv(s, [started("saveBookmark", "update", "none") EXCEPT
                       !.chromeId = id,
                       !.bookmark = [bookmarks[id] EXCEPT !.category = category]])
  /\ hist' = [hist EXCEPT !.edits = @ + 1]
  /\ UNCHANGED <<candVars, chromeVars, visitVars, metadataTasks, dbVars, now, timers,
                 startupPending>>

\* await db.bookmarks.update(updatedBookmark.id, {title, url, category})
SaveUpdate(s) ==
  /\ inv[s].job = "saveBookmark" /\ inv[s].pc = "update"
  /\ bookmarks' =
       IF inv[s].chromeId \in DOMAIN bookmarks
         THEN [bookmarks EXCEPT
                 ![inv[s].chromeId].title = inv[s].bookmark.title,
                 ![inv[s].chromeId].url = inv[s].bookmark.url,
                 ![inv[s].chromeId].category = inv[s].bookmark.category]
         ELSE bookmarks
  /\ setInv(s, [inv[s] EXCEPT !.pc = "chrome"])
  /\ UNCHANGED <<candVars, chromeVars, visitVars, metadataTasks, categories, settings,
                 checkpoints, nextCheckpointId, now, timers, startupPending, hist>>

\* await chrome.bookmarks.update(updatedBookmark.id, {title, url}): Chrome
\* raises onChanged with that title and URL, and the rest of
\* handleSaveBookmark reads only; the slot goes on as the onChanged listener.
SaveChrome(s) ==
  /\ inv[s].job = "saveBookmark" /\ inv[s].pc = "chrome"
  /\ setInv(s, [started("changed", "get", "none") EXCEPT
                  !.chromeId = inv[s].chromeId,
                  !.url = inv[s].bookmark.url,
                  !.title = inv[s].bookmark.title])
  /\ UNCHANGED <<candVars, chromeVars, visitVars, metadataTasks, dbVars, now, timers,
                 startupPending, hist>>

\* The categories the user chooses in the form.
FormCategories == {"work", Uncategorized}

\* The categorization job, one invocation at a time, while the user edits
\* bookmarks in the options page.
NextEdit ==
  \/ Alarm("categorize", FALSE)
  \/ Timer("categorize", FALSE)
  \/ \E id \in DOMAIN bookmarks, category \in FormCategories : Save(id, category)
  \/ \E s \in Slots :
       \/ CategorizeStep(s)
       \/ SaveUpdate(s) \/ SaveChrome(s) \/ ChangedGet(s) \/ ChangedUpdate(s)

SpecEdit == Init /\ [][NextEdit]_vars

(***************************************************************************)
(* The categorization job (C21, C22)                                        *)
(***************************************************************************)
\* A step of a handler of runCategorizationTask.
categorizeStepOf(s) == inv[s].job = "categorize" /\ inv'[s] # inv[s]

\* C21: a step of the categorization job changes the category of a bookmark
\* only if the bookmark had no category or 'uncategorized' and the job
\* classified it with confidence >= 0.5, to the category of that
\* classification; a bookmark classified below 0.5 keeps its category.
C21_CommitsOnlyConfidentToUncategorized ==
  [][\A s \in Slots :
       categorizeStepOf(s) =>
         \A id \in DOMAIN bookmarks :
           bookmarks'[id].category # bookmarks[id].category
             => /\ uncategorized(bookmarks[id])
                /\ inv[s].pc = "update"
                /\ inv[s].chunk[inv[s].k].id = id
                /\ LET result == classification(inv[s].chunk[inv[s].k].url,
                                                inv[s].chunk[inv[s].k].title)
                   IN  confident(result) /\ bookmarks'[id].category = result.category]_vars

\* C22: the 'categorize' checkpoint goes from running to completed only in a
\* state where every bookmark with no category or 'uncategorized' has been
\* classified in this run.
C22_CompletedOnlyWhenNoneLeft ==
  [][\A id \in DOMAIN checkpoints :
       ( /\ checkpoints[id].jobType = "categorize"
         /\ checkpoints[id].status = "running"
         /\ checkpoints'[id].status = "completed"
         /\ id = hist.catRunId )
       => \A b \in DOMAIN bookmarks :
            uncategorized(bookmarks[b]) => hist.classified[b] > 0]_vars

(***************************************************************************)
(* Checkpoint records (C30)                                                 *)
(***************************************************************************)
\* C30: no step lowers the processedCount of a stored checkpoint or changes
\* its totalItems, also when invocations of one job type overlap.
C30_ProcessedCountMonotonic ==
  [][\A id \in DOMAIN checkpoints :
       /\ checkpoints'[id].processedCount >= checkpoints[id].processedCount
       /\ checkpoints'[id].totalItems = checkpoints[id].totalItems]_vars

(***************************************************************************)
(* One categorization chunk and one archiving chunk (C23)                   *)
(***************************************************************************)
\* What a chunk leaves in the store: the bookmark records, the category
\* counters and, of each checkpoint record, what does not depend on its key.
outcome(checkpoint) ==
  [jobType |-> checkpoint.jobType, totalItems |-> checkpoint.totalItems,
   processedCount |-> checkpoint.processedCount, status |-> checkpoint.status]

store ==
  [bookmarks |-> bookmarks, categories |-> categories,
   outcomes |-> {outcome(checkpoints[id]) : id \in DOMAIN checkpoints}]

storeOf(table) ==
  [bookmarks |-> table, categories |-> categoriesOf(table), outcomes |-> {}]

\* The for loop of runCategorizationTask over a chunk, run without another
\* handler in between.
RECURSIVE categorizeAll(_, _)
categorizeAll(table, ids) ==
  IF ids = <<>> THEN table
  ELSE LET id == Head(ids)
           result == classification(table[id].url, table[id].title)
       IN  categorizeAll(IF confident(result)
                           THEN setCategory(table, id, result.category)
                           ELSE table,
                         Tail(ids))

\* runCategorizationTask from a store without a categorization checkpoint,
\* run without another handler in between.
categorizeChunk(st) ==
  LET found == uncategorizedIds(st.bookmarks)
      ids == limit(found, CHUNK_SIZE)
      result(id) == classification(st.bookmarks[id].url, st.bookmarks[id].title)
      counted(c) == {id \in elems(ids) : confident(result(id)) /\ result(id).category = c}
  IN  IF found = <<>> THEN st
      ELSE [bookmarks |-> categorizeAll(st.bookmarks, ids),
            categories |-> [c \in DOMAIN st.categories |->
                              st.categories[c] + Cardinality(counted(c))],
            outcomes |-> st.outcomes \cup
              {[jobType |-> "categorize", totalItems |-> Len(found),
                processedCount |-> Len(ids),
                status |-> IF Len(ids) < Len(found) THEN "running" ELSE "completed"]}]

RECURSIVE archiveAll(_, _)
archiveAll(table, ids) ==
  IF ids = <<>> THEN table ELSE archiveAll(setArchived(table, Head(ids)), Tail(ids))

\* Phase 2 of runArchivingTask from group g on: the table and the number of
\* duplicates archived.
RECURSIVE archiveGroups(_, _, _, _)
archiveGroups(table, groups, g, processed) ==
  IF g > Len(groups) \/ processed >= CHUNK_SIZE
    THEN [table |-> table, processed |-> processed]
    ELSE LET sorted == sortedGroup(table, groups[g])
         IN  IF Len(sorted) > 1
               THEN archiveGroups(archiveAll(table, Tail(sorted)), groups, g + 1,
                                  processed + Len(sorted) - 1)
               ELSE archiveGroups(table, groups, g + 1, processed)

\* runArchivingTask from a store without an archiving checkpoint, at time
\* `at`, run without another handler in between.
archiveChunk(st, at) ==
  LET table == st.bookmarks
      inactiveAll == inactiveIds(table, at, threshold)
      total == Len(inactiveAll)
                 + sumLenMinusOne(findDuplicates(table, notArchivedIds(table)))
      chunk == limit(inactiveAll, CHUNK_SIZE)
      phase1 == archiveAll(table, chunk)
      phase2 == IF Len(chunk) < CHUNK_SIZE
                  THEN archiveGroups(phase1,
                                     findDuplicates(phase1, notArchivedIds(phase1)),
                                     1, 0)
                  ELSE [table |-> phase1, processed |-> 0]
      more == \/ inactiveIds(phase2.table, at, threshold) # <<>>
              \/ findDuplicates(phase2.table, notArchivedIds(phase2.table)) # <<>>
  IN  IF total = 0 THEN st
      ELSE [bookmarks |-> phase2.table,
            categories |-> st.categories,
            outcomes |-> st.outcomes \cup
              {[jobType |-> "archive", totalItems |-> total,
                processedCount |-> Len(chunk) + phase2.processed,
                status |-> IF more THEN "running" ELSE "completed"]}]

\* chrome.alarms.onAlarm once for each of the two jobs; the handlers overlap.
AlarmOnce(jobType) ==
  /\ jobType \in {"categorize", "archive"}
  /\ jobType \notin hist.invoked
  /\ \E s \in Slots :
       freeSlot(s) /\ setInv(s, started(jobType, firstStep(jobType), "none"))
  /\ hist' = [hist EXCEPT !.invoked = @ \cup {jobType}]
  /\ UNCHANGED <<candVars, chromeVars, visitVars, metadataTasks, dbVars, now, timers,
                 startupPending>>

\* Bookmarks both jobs work on: with or without a category, of a URL a rule
\* classifies or of one no rule classifies, inactive or visited today;
\* bookmarks of one URL are duplicates.
CommuteProfiles ==
  { bookmarkOf(url, category, lastVisited, FALSE) :
      url \in {UrlGithubFoo, UrlExampleA},
      category \in {NoCategory, "news"},
      lastVisited \in {1, MaxDay} }

InitCommute ==
  /\ bookmarks \in [1..MaxBookmarks -> CommuteProfiles]
  /\ categories = categoriesOf(bookmarks)
  /\ settings = DefaultSettings
  /\ checkpoints = [id \in {} |-> NoCheckpoint]
  /\ nextCheckpointId = 1
  /\ now = MaxDay
  /\ inv = [s \in Slots |-> IdleInv]
  /\ timers = [j \in JobTypes |-> 0]
  /\ startupPending = FALSE
  /\ hist = [InitHist EXCEPT !.start = bookmarks]
  /\ candidates = <<>>
  /\ nextCandidateId = 1
  /\ chromeNextId = MaxBookmarks + 1
  /\ createdEvents = <<>>
  /\ historyItems = <<>>
  /\ historyPermission = FALSE
  /\ metadataTasks = {}
  /\ visitHistory = <<>>
  /\ pending = <<>>

NextCommute ==
  \/ AlarmOnce("categorize")
  \/ AlarmOnce("archive")
  \/ \E s \in Slots : CategorizeStep(s) \/ ArchiveStep(s)

SpecCommute == InitCommute /\ [][NextCommute]_vars

bothRan == hist.invoked = {"categorize", "archive"} /\ allIdle

\* C23: when one categorization chunk and one archiving chunk have run, in
\* either order or with their steps interleaved, the bookmark records, the
\* category counters and the checkpoint outcomes are those of the
\* categorization chunk followed by the archiving chunk, and those of the
\* archiving chunk followed by the categorization chunk.
C23_CategorizeArchiveCommute ==
  bothRan =>
    /\ store = archiveChunk(categorizeChunk(storeOf(hist.start)), now)
    /\ store = categorizeChunk(archiveChunk(storeOf(hist.start), now))

\* Both chunks ran and changed one bookmark, and the archiving job started
\* between two updates of the categorization job.
C23_Witness ==
  /\ bothRan
  /\ \E id \in DOMAIN bookmarks :
       /\ bookmarks[id].isArchived /\ ~hist.start[id].isArchived
       /\ bookmarks[id].category # hist.start[id].category
  /\ hist.archStart # <<>>
  /\ \E id1, id2 \in DOMAIN bookmarks :
       /\ hist.archStart[id1].category # hist.start[id1].category
       /\ hist.archStart[id2].category = hist.start[id2].category
       /\ bookmarks[id2].category # hist.start[id2].category

(***************************************************************************)
(* Jobs that depend on settings (C24)                                       *)
(***************************************************************************)
\* db.settings.get('local'): the default record, one with a feature off,
\* or none.
SettingsChoices ==
  { DefaultSettings,
    [DefaultSettings EXCEPT !.autoArchive = FALSE],
    [DefaultSettings EXCEPT !.autoBookmarkEnabled = FALSE],
    [DefaultSettings EXCEPT !.exists = FALSE] }

\* The populations of the four jobs, and one whose candidates meet a
\* threshold when they are visited.
SettingsPopulations ==
  Populations \cup
    { [bookmarks |-> [n \in 1..MaxBookmarks |-> Unclassified],
       candidates |-> TrackedCandidates,
       historyItems |-> << historyItem(UrlExampleB, TitlePage, Today - 1, 1) >>,
       historyPermission |-> TRUE] }

InitSettings ==
  /\ settings \in SettingsChoices
  /\ checkpoints = [id \in {} |-> NoCheckpoint]
  /\ nextCheckpointId = 1
  /\ now = Today
  /\ inv = [s \in Slots |-> IdleInv]
  /\ timers = [j \in JobTypes |-> 0]
  /\ startupPending = FALSE
  /\ \E population \in SettingsPopulations :
       /\ bookmarks = population.bookmarks
       /\ categories = categoriesOf(population.bookmarks)
       /\ candidates = population.candidates
       /\ nextCandidateId = Len(population.candidates) + 1
       /\ historyItems = population.historyItems
       /\ historyPermission = population.historyPermission
       /\ hist = [InitHist EXCEPT !.start = population.bookmarks]
  /\ chromeNextId = MaxBookmarks + 1
  /\ createdEvents = <<>>
  /\ metadataTasks = {}
  /\ visitHistory = <<>>
  /\ pending = <<>>

\* analyzeExistingHistory and recalculateCandidateWindowVisits are called
\* once each.
CallOnce(jobType) ==
  /\ jobType \in {"historyAnalysis", "candidateRecalculation"}
  /\ jobType \notin hist.invoked
  /\ \E s \in Slots :
       freeSlot(s) /\ setInv(s, started(jobType, firstStep(jobType), "none"))
  /\ hist' = [hist EXCEPT !.invoked = @ \cup {jobType}]
  /\ UNCHANGED <<candVars, chromeVars, visitVars, metadataTasks, dbVars, now, timers,
                 startupPending>>

\* One invocation of the archiving job, of the recalculation and of the
\* history analysis with the continuations it schedules, and calls of
\* trackCandidateUrl for a page with a candidate, one handler at a time,
\* with the events Chrome raises for the bookmarks they create.
NextSettings ==
  \/ allIdle /\ AlarmOnce("archive")
  \/ allIdle /\ \E jobType \in JobTypes : CallOnce(jobType)
  \/ allIdle /\ Track(UrlGithubDocs, TitleCode)
  \/ Timer("historyAnalysis", FALSE)
  \/ Created
  \/ FetchMetadata
  \/ \E s \in Slots :
       \/ ArchiveStep(s)
       \/ RecalculationStep(s)
       \/ PromoteStep(s)
       \/ HistoryStep(s)
       \/ AddedStep(s)
       \/ TrackStep(s)

SpecSettings == InitSettings /\ [][NextSettings]_vars

\* The feature a handler's settings check is about is off, or there is no
\* settings record.
featureOff(job) ==
  \/ ~settings.exists
  \/ job = "archive" /\ ~settings.autoArchive
  \/ job \in {"candidateRecalculation", "historyAnalysis", "track"}
       /\ ~settings.autoBookmarkEnabled

\* The handler in slot s is in the archiving job, the recalculation, the
\* history analysis or the threshold check (checkAndPromoteCandidate).
settingsJob(s) ==
  \/ inv[s].job \in {"archive", "candidateRecalculation", "historyAnalysis"}
  \/ inv[s].job = "track" /\ inv[s].pc \in {"checkGet", "checkSettings"}

\* C24: without a settings record, or with the feature off, every step of
\* the archiving job, the recalculation, the threshold check and the history
\* analysis leaves the bookmarks, candidates and checkpoints as they are, and
\* the step that reads the settings returns (no catch block is entered).
C24_DisabledJobsAreNoOps ==
  [][\A s \in Slots :
       (settingsJob(s) /\ featureOff(inv[s].job) /\ inv'[s] # inv[s])
         => /\ bookmarks' = bookmarks
            /\ candidates' = candidates
            /\ checkpoints' = checkpoints
            /\ inv'[s].pc \in {"idle", "settings", "checkSettings"}
            /\ inv[s].pc \in {"settings", "checkSettings"} => inv'[s] = IdleInv]_vars

\* Without a settings record and with no handler in progress: the archiving
\* job, the recalculation and the history analysis were invoked, and the
\* candidate that meets the quarterly threshold was visited and is still
\* tracked; no bookmark and no checkpoint has changed.
C24_Witness ==
  /\ ~settings.exists
  /\ allIdle
  /\ hist.invoked = {"archive", "candidateRecalculation", "historyAnalysis"}
  /\ historyPermission
  /\ \E id \in DOMAIN candidates :
       /\ candidates[id].visitCount > candidates[id].quarterlyVisits
       /\ candidates[id].quarterlyVisits >= DefaultSettings.quarterlyVisitThreshold
       /\ candidates[id].status = "tracking"
  /\ bookmarks = hist.start
  /\ checkpoints = [id \in {} |-> NoCheckpoint]

(***************************************************************************)
(* trackCandidateUrl for an excluded domain (C26)                           *)
(***************************************************************************)
\* The settings after the user added example.com to the excluded domains.
ExampleExcludedSettings ==
  [DefaultSettings EXCEPT !.excludedDomains = @ \cup {ExampleCom}]

\* The candidates were created before the domain was excluded.
InitExcluded ==
  /\ bookmarks = << bookmarkOf(UrlExampleA, NoCategory, Today - 1, FALSE) >>
  /\ categories = categoriesOf(bookmarks)
  /\ settings \in {DefaultSettings, ExampleExcludedSettings}
  /\ checkpoints = [id \in {} |-> NoCheckpoint]
  /\ nextCheckpointId = 1
  /\ now = Today
  /\ inv = [s \in Slots |-> IdleInv]
  /\ timers = [j \in JobTypes |-> 0]
  /\ startupPending = FALSE
  /\ hist = InitHist
  /\ candidates = TrackedCandidates
  /\ nextCandidateId = Len(TrackedCandidates) + 1
  /\ chromeNextId = MaxBookmarks + 1
  /\ createdEvents = <<>>
  /\ historyItems = <<>>
  /\ historyPermission = FALSE
  /\ metadataTasks = {}
  /\ visitHistory = <<>>
  /\ pending = <<>>

SpecExcluded == InitExcluded /\ [][NextTrack]_vars

\* C26: when trackCandidateUrl finds the domain of its URL in the excluded
\* domains of the settings and a candidate of the canonical URL exists, the
\* step marks that candidate excluded, and no candidate is added or counted.
C26_ExcludedDomainMarksCandidate ==
  [][\A s \in Slots :
       LET existing == firstByNormalizedUrl(candidates, normalizedUrlOf(inv[s].url))
       IN  ( /\ inv[s].job = "track" /\ inv[s].pc = "settings"
             /\ inv'[s] # inv[s]
             /\ domainExcluded(extractDomainLower(inv[s].url))
             /\ existing # 0 )
           => /\ DOMAIN candidates' = DOMAIN candidates
              /\ candidates'[existing].status = "excluded"
              /\ candidates'[existing].visitCount = candidates[existing].visitCount]_vars

(***************************************************************************)
(* Entertainment sites (C28)                                                *)
(***************************************************************************)
UrlYoutube == mkUrl(<<"y", "o", "u", "t", "u", "b", "e", ".", "c", "o", "m">>, <<"/">>, <<>>, <<>>)

UrlNetflix == mkUrl(<<"n", "e", "t", "f", "l", "i", "x", ".", "c", "o", "m">>, <<"/">>, <<>>, <<>>)

UrlSpotify == mkUrl(<<"s", "p", "o", "t", "i", "f", "y", ".", "c", "o", "m">>, <<"/">>, <<>>, <<>>)

\* The test bookmarks of the entertainment sites, titled with the site name
\* and without a category yet.
SiteProfiles ==
  { [newBookmark(UrlYoutube, <<"Y", "o", "u", "T", "u", "b", "e">>) EXCEPT !.category = NoCategory],
    [newBookmark(UrlNetflix, <<"N", "e", "t", "f", "l", "i", "x">>) EXCEPT !.category = NoCategory],
    [newBookmark(UrlSpotify, <<"S", "p", "o", "t", "i", "f", "y">>) EXCEPT !.category = NoCategory] }

InitSites ==
  /\ bookmarks \in [1..MaxBookmarks -> SiteProfiles]
  /\ categories = categoriesOf(bookmarks)
  /\ settings = DefaultSettings
  /\ checkpoints = [id \in {} |-> NoCheckpoint]
  /\ nextCheckpointId = 1
  /\ now = Today
  /\ inv = [s \in Slots |-> IdleInv]
  /\ timers = [j \in JobTypes |-> 0]
  /\ startupPending = FALSE
  /\ hist = InitHist
  /\ candidates = <<>>
  /\ nextCandidateId = 1
  /\ chromeNextId = MaxBookmarks + 1
  /\ createdEvents = <<>>
  /\ historyItems = <<>>
  /\ historyPermission = FALSE
  /\ metadataTasks = {}
  /\ visitHistory = <<>>
  /\ pending = <<>>

\* The categorization job over these bookmarks, one handler at a time.
NextSites ==
  \/ Alarm("categorize", FALSE)
  \/ Timer("categorize", FALSE)
  \/ \E s \in Slots : CategorizeStep(s)

SpecSites == InitSites /\ [][NextSites]_vars

\* C28: a bookmark of youtube.com, netflix.com or spotify.com titled with
\* the site name is classified 'entertainment': the category the job gives
\* it is no other.
C28_EntertainmentSites ==
  \A id \in DOMAIN bookmarks : bookmarks[id].category \in {NoCategory, "entertainment"}

(***************************************************************************)
(* Items per invocation (C29)                                               *)
(***************************************************************************)
\* Bookmarks of two URLs of one canonical form and of another URL, inactive
\* or visited today.
BudgetProfiles ==
  { bookmarkOf(url, "news", lastVisited, FALSE) :
      url \in {UrlExampleATracked, UrlExampleA, UrlExampleB},
      lastVisited \in {1, MaxDay} }

InitBudget ==
  /\ bookmarks \in [1..MaxDuplicates -> BudgetProfiles]
  /\ categories = categoriesOf(bookmarks)
  /\ settings = DefaultSettings
  /\ checkpoints = [id \in {} |-> NoCheckpoint]
  /\ nextCheckpointId = 1
  /\ now = MaxDay
  /\ inv = [s \in Slots |-> IdleInv]
  /\ timers = [j \in JobTypes |-> 0]
  /\ startupPending = FALSE
  /\ hist = InitHist
  /\ candidates = <<>>
  /\ nextCandidateId = 1
  /\ chromeNextId = MaxDuplicates + 1
  /\ createdEvents = <<>>
  /\ historyItems = <<>>
  /\ historyPermission = FALSE
  /\ metadataTasks = {}
  /\ visitHistory = <<>>
  /\ pending = <<>>

SpecBudget == InitBudget /\ [][NextArch]_vars

\* The chunk size of a job.
chunkSizeOf(job) == IF job = "historyAnalysis" THEN HISTORY_CHUNK_SIZE ELSE CHUNK_SIZE

\* The items the invocation in slot s has processed: what its checkpoint
\* object counts beyond the stored record.
processedBy(s) ==
  inv[s].checkpoint.processedCount
    - (IF inv[s].checkpoint.id \in DOMAIN checkpoints
         THEN checkpoints[inv[s].checkpoint.id].processedCount
         ELSE 0)

\* C29: an invocation of a job processes at most the chunk size of the job;
\* for the archiving job, the inactive and the duplicate bookmarks it
\* archives count together.
C29_AtMostChunkSize ==
  \A s \in Slots :
    inv[s].job \in JobTypes => processedBy(s) <= chunkSizeOf(inv[s].job)

(***************************************************************************)
(* analyzeExistingHistory across restarts (C31)                             *)
(***************************************************************************)
historyCheckpointIds ==
  {id \in DOMAIN checkpoints : checkpoints[id].jobType = "historyAnalysis"}

\* The handler in slot s is in the for loop over its chunk or at the save
\* that follows it.
inHistoryLoop(s) ==
  /\ inv[s].job = "historyAnalysis"
  /\ inv[s].pc \notin {"permission", "settings", "load", "search", "create",
                       "clear", "analyzedAt"}

terminal(checkpoint) == checkpoint.status \in {"completed", "failed"}

\* The filter of cleanupOldCheckpoints at time `at`, in key order.
oldCheckpointIds(table, at) ==
  ascending({id \in DOMAIN table :
               table[id].startTime < at - SEVEN_DAYS /\ terminal(table[id])})

\* cleanupOldCheckpoints is called (onInstalled): sevenDaysAgo is taken.
Cleanup ==
  /\ allIdle
  /\ \E s \in Slots :
       /\ freeSlot(s)
       /\ setInv(s, [started("cleanup", "filter", "none") EXCEPT !.t = now])
  /\ UNCHANGED <<candVars, chromeVars, visitVars, metadataTasks, dbVars, now, timers,
                 startupPending, hist>>

\* const oldCheckpoints = await db.checkpoints.filter(...).toArray()
CleanupFilter(s) ==
  /\ inv[s].job = "cleanup" /\ inv[s].pc = "filter"
  /\ LET found == oldCheckpointIds(checkpoints, inv[s].t)
     IN  setInv(s, IF found = <<>> THEN IdleInv
                   ELSE [inv[s] EXCEPT !.chunk = found, !.k = 1, !.pc = "delete"])
  /\ UNCHANGED <<candVars, chromeVars, visitVars, metadataTasks, dbVars, now, timers,
                 startupPending, hist>>

\* await db.checkpoints.delete(checkpoint.id)
CleanupDelete(s) ==
  /\ inv[s].job = "cleanup" /\ inv[s].pc = "delete"
  /\ checkpoints' = delete(checkpoints, inv[s].chunk[inv[s].k])
  /\ setInv(s, IF inv[s].k < Len(inv[s].chunk) THEN [inv[s] EXCEPT !.k = @ + 1]
               ELSE IdleInv)
  /\ UNCHANGED <<candVars, chromeVars, visitVars, metadataTasks, bookmarks, categories,
                 settings, nextCheckpointId, now, timers, startupPending, hist>>

\* A day passes between two handlers. The checkpoints that are terminal at
\* the end of the day and were not at the end of the day before became
\* terminal on this day (observation).
DayPasses ==
  /\ allIdle
  /\ now < Today + MaxIdleDays
  /\ now' = now + 1
  /\ hist' = [hist EXCEPT
                !.terminalAt =
                  [id \in {i \in DOMAIN checkpoints : terminal(checkpoints[i])} |->
                     IF id \in DOMAIN hist.terminalAt THEN hist.terminalAt[id] ELSE now]]
  /\ UNCHANGED <<candVars, chromeVars, visitVars, metadataTasks, dbVars, inv, timers,
                 startupPending>>

\* Bookmarks of a categorization run of two chunks.
InitCleanup ==
  InitWith({bookmarkOf(UrlGithubFoo, NoCategory, 0, FALSE)}, Today, {DefaultSettings})

\* The categorization job, one handler at a time, over days, with restarts
\* of the host between chunks and calls of cleanupOldCheckpoints.
NextCleanup ==
  \/ Alarm("categorize", FALSE)
  \/ Timer("categorize", FALSE)
  \/ Restart
  \/ Startup(FALSE)
  \/ DayPasses
  \/ Cleanup
  \/ \E s \in Slots :
       \/ StartupCategorize(s) \/ StartupArchive(s) \/ CategorizeStep(s)
       \/ CleanupFilter(s) \/ CleanupDelete(s)

SpecCleanup == InitCleanup /\ [][NextCleanup]_vars

\* The day a checkpoint became terminal.
terminalSince(id) ==
  IF id \in DOMAIN hist.terminalAt THEN hist.terminalAt[id] ELSE now

\* C34: a step deletes a checkpoint only if it is completed or failed and
\* has been so for seven days.
C34_DeletesOnlyOldTerminal ==
  [][\A id \in DOMAIN checkpoints :
       id \notin DOMAIN checkpoints'
         => /\ terminal(checkpoints[id])
            /\ terminalSince(id) + SEVEN_DAYS <= now]_vars

(***************************************************************************)
(* Totals of the archiving job (C32)                                        *)
(***************************************************************************)
\* C32: with nothing else changing the bookmarks, an archiving checkpoint
\* that is completed has processedCount = totalItems: the total taken at the
\* start is the number of bookmarks the job archived.
C32_ArchiveTotalIsArchivedCount ==
  \A id \in DOMAIN checkpoints :
    (checkpoints[id].jobType = "archive" /\ checkpoints[id].status = "completed")
      => checkpoints[id].processedCount = checkpoints[id].totalItems


(***************************************************************************)
(* Recalculation over candidate populations (C33, C35)                      *)
(***************************************************************************)
\* A candidate that crosses the quarterly threshold, one not seen for 95
\* days, and one seen yesterday for the first time.
CandidateKinds == {"crossing", "stale", "quiet"}

PopulationUrls == << UrlNewsExample, UrlGithubDocs, UrlExampleB >>

PopulationTitles == << NewsExampleCom, TitleCode, TitlePage >>

MaxPopulation == 3

populationCandidate(id, kind) ==
  candidateOf(id, PopulationUrls[id], PopulationTitles[id],
              CASE kind = "crossing" -> 5 [] kind = "stale" -> 2 [] OTHER -> 1,
              IF kind = "stale" THEN Today - 95 ELSE Today - 1)

InitPopulationOf(kindsAllowed) ==
  /\ bookmarks = <<>>
  /\ categories = categoriesOf(bookmarks)
  /\ settings = DefaultSettings
  /\ checkpoints = [id \in {} |-> NoCheckpoint]
  /\ nextCheckpointId = 1
  /\ now = Today
  /\ inv = [s \in Slots |-> IdleInv]
  /\ timers = [j \in JobTypes |-> 0]
  /\ startupPending = FALSE
  /\ hist = InitHist
  /\ \E n \in 1..MaxPopulation :
       \E kinds \in [1..n -> kindsAllowed] :
         /\ candidates = [id \in 1..n |-> populationCandidate(id, kinds[id])]
         /\ nextCandidateId = n + 1
  /\ chromeNextId = MaxBookmarks + 1
  /\ createdEvents = <<>>
  /\ historyItems = <<>>
  /\ historyPermission = FALSE
  /\ metadataTasks = {}
  /\ visitHistory = <<>>
  /\ pending = <<>>

InitPopulation == InitPopulationOf(CandidateKinds)

SpecPopulation == InitPopulation /\ [][NextRecalc]_vars

\* const daysSinceLastVisit = (Date.now() - candidate.lastSeen) / day > 90
staleAt(candidate, at) == (at - candidate.lastSeen) > QUARTER

\* The threshold check of the loop on the counts it re-derives.
crossesAt(candidate, at, stored) ==
  meetsThreshold(estimatedWindows(candidate, getTimeWindows(at)),
                 stored.weeklyVisitThreshold, stored.monthlyVisitThreshold,
                 stored.quarterlyVisitThreshold)

\* promotedCount of the chunk is the number of its candidates that met a
\* threshold: every promoteToBookmark of the chunk returned an id.
creationSucceeded(s) ==
  inv[s].processed =
    Cardinality({n \in 1..Len(inv[s].chunk) :
                   crossesAt(inv[s].chunk[n], inv[s].t, inv[s].settings)})

\* C33: when a recalculation run is completed (clearCheckpoint) and every
\* promotion of its last chunk returned an id, every candidate still
\* tracking was in that chunk, none of them was last seen more than 90 days
\* ago and none has re-derived window counts that meet a threshold.
C33_CompletedRunLeavesNoDueCandidate ==
  [][\A s \in Slots :
       (/\ inv[s].job = "candidateRecalculation"
        /\ inv[s].pc = "clear" /\ inv'[s].pc # "clear"
        /\ creationSucceeded(s))
         => /\ checkpoints'[inv[s].checkpoint.id].status = "completed"
            /\ \A id \in DOMAIN candidates' :
                 candidates'[id].status = "tracking"
                   => /\ \E n \in 1..Len(inv[s].chunk) : inv[s].chunk[n].id = id
                      /\ ~staleAt(candidates'[id], now)
                      /\ ~crossesAt(candidates'[id], inv[s].t, inv[s].settings)]_vars

\* A run of three candidates is completed: one was promoted, one deleted,
\* one is still tracking.
C33_Witness ==
  /\ allIdle
  /\ \E id \in DOMAIN checkpoints :
       /\ checkpoints[id].jobType = "candidateRecalculation"
       /\ checkpoints[id].status = "completed"
       /\ checkpoints[id].totalItems = MaxPopulation
  /\ Cardinality(DOMAIN candidates) = MaxPopulation - 1
  /\ \E id \in DOMAIN candidates : candidates[id].status = "tracking"
  /\ \E id \in DOMAIN candidates : candidates[id].status = "promoted"

\* Populations with no candidate to promote: promoteToBookmark is never
\* called and Chrome raises no event.
InitQuiet == InitPopulationOf({"stale", "quiet"})

\* A continuation scheduled with setTimeout runs, however many items the
\* run has counted.
Continuation(jobType) ==
  /\ timers[jobType] > 0
  /\ allIdle
  /\ \E s \in Slots :
       freeSlot(s) /\ setInv(s, started(jobType, firstStep(jobType), "none"))
  /\ timers' = [timers EXCEPT ![jobType] = @ - 1]
  /\ UNCHANGED <<candVars, chromeVars, visitVars, metadataTasks, dbVars, now, startupPending, hist>>

NextQuiet ==
  \/ allIdle /\ CallOnce("candidateRecalculation")
  \/ Continuation("candidateRecalculation")
  \/ \E s \in Slots : RecalculationStep(s)

\* Every continuation scheduled with setTimeout runs and every awaited
\* operation of the handler completes.
FairQuiet ==
  /\ InitQuiet /\ [][NextQuiet]_vars
  /\ WF_vars(Continuation("candidateRecalculation"))
  /\ \A s \in Slots : WF_vars(RecalculationStep(s))

recalculationRunning == runningIds(checkpoints, "candidateRecalculation") # {}

\* The first CHUNK_SIZE tracking candidates neither meet a threshold nor are
\* stale.
fullQuietChunk ==
  LET ids == limit(trackingIds(candidates), CHUNK_SIZE)
  IN  /\ Len(ids) = CHUNK_SIZE
      /\ \A n \in 1..Len(ids) :
           /\ ~staleAt(candidates[ids[n]], now)
           /\ ~crossesAt(candidates[ids[n]], now, settings)

\* C35: a recalculation run whose next chunk is full of tracking candidates
\* that neither meet a threshold nor are stale eventually leaves status
\* running, when every scheduled continuation runs.
C35_FullQuietChunkCompletes ==
  (recalculationRunning /\ fullQuietChunk) ~> ~recalculationRunning


(***************************************************************************)
(* Checkpoint records (C36, C37)                                            *)
(***************************************************************************)
\* C36: every persisted checkpoint of the categorization, archiving and
\* candidate-recalculation jobs has 0 <= processedCount <= totalItems.
C36_ProcessedCountWithinTotal ==
  \A id \in DOMAIN checkpoints :
    checkpoints[id].jobType \in {"categorize", "archive", "candidateRecalculation"}
      => /\ 0 <= checkpoints[id].processedCount
         /\ checkpoints[id].processedCount <= checkpoints[id].totalItems


\* C37: a checkpoint record whose status is completed or failed is never set
\* back to running.
C37_TerminalStatusIsFinal ==
  [][\A id \in DOMAIN checkpoints :
       (terminal(checkpoints[id]) /\ id \in DOMAIN checkpoints')
         => terminal(checkpoints'[id])]_vars


(***************************************************************************)
(* Promotion and the onCreated handler (C38)                                *)
(***************************************************************************)
\* C38: a promoteToBookmark that created a Chrome node returns the node's
\* id, the Bookmark record of that id is stored, and the candidate is
\* promoted (or was dismissed by the user meanwhile), whether the onCreated
\* handler adds its record before or after promoteToBookmark adds its own.
C38_PromotionAndCreatedEvent ==
  \A p \in hist.promotions :
    p.created # 0
      => /\ p.result = p.created
         /\ p.created \in DOMAIN bookmarks
         /\ p.status \in {"promoted", "dismissed"}


(***************************************************************************)
(* Category counters (C39)                                                  *)
(***************************************************************************)
\* The user removes the bookmark node `id`: chrome.bookmarks.onRemoved runs
\* await db.bookmarks.delete(id).
Removed(id) ==
  /\ allIdle /\ createdEvents = <<>>
  /\ id \in DOMAIN bookmarks
  /\ bookmarks' = delete(bookmarks, id)
  /\ UNCHANGED <<candVars, chromeVars, visitVars, metadataTasks, categories, settings,
                 checkpoints, nextCheckpointId, now, inv, timers, startupPending, hist>>

\* The onCreated and onRemoved events of bookmarks the user adds and removes.
NextRemoved ==
  \/ \E url \in EventUrls, title \in EventTitles : UserCreates(url, title)
  \/ \E id \in DOMAIN bookmarks : Removed(id)
  \/ Created
  \/ FetchMetadata
  \/ \E s \in Slots : AddedStep(s)

SpecRemoved == InitEvents /\ [][NextRemoved]_vars

\* C39: whenever no handler is in progress, each category's bookmarkCount is
\* the number of stored bookmarks of that category.
C39_CountsMatchBookmarks ==
  allIdle => categories = categoriesOf(bookmarks)


(***************************************************************************)
(* Window counts of candidates (C40)                                        *)
(***************************************************************************)
\* No candidate yet; Chrome's history lists a page with four visits 40
\* days ago (below every threshold) and one that crosses the weekly
\* threshold.
InitWindows ==
  /\ bookmarks = <<>>
  /\ categories = categoriesOf(bookmarks)
  /\ settings = DefaultSettings
  /\ checkpoints = [id \in {} |-> NoCheckpoint]
  /\ nextCheckpointId = 1
  /\ now = Today
  /\ inv = [s \in Slots |-> IdleInv]
  /\ timers = [j \in JobTypes |-> 0]
  /\ startupPending = FALSE
  /\ hist = InitHist
  /\ candidates = <<>>
  /\ nextCandidateId = 1
  /\ chromeNextId = MaxBookmarks + 1
  /\ createdEvents = <<>>
  /\ historyItems = << historyItem(UrlGithubFoo, TitleCode, Today - 40, 4),
                       historyItem(UrlGithubDocs, TitleCode, Today - 1, 5) >>
  /\ historyPermission = TRUE
  /\ metadataTasks = {}
  /\ visitHistory = <<>>
  /\ pending = <<>>

\* One analysis of the history, started when no handler runs, with calls
\* of trackCandidateUrl for the first page while it is at an await. No
\* candidate of these behaviours meets a threshold in
\* checkAndPromoteCandidate, so promoteToBookmark is not called.
NextWindows ==
  \/ Track(UrlGithubFoo, TitleCode)
  \/ allIdle /\ CallOnce("historyAnalysis")
  \/ Timer("historyAnalysis", FALSE)
  \/ Created
  \/ FetchMetadata
  \/ \E s \in Slots :
       \/ HistoryStep(s)
       \/ AddedStep(s)
       \/ TrackExcluded(s)
       \/ TrackSettings(s)
       \/ TrackFind(s)
       \/ TrackUpdate(s)
       \/ TrackAdd(s)
       \/ CheckGet(s)
       \/ CheckSettings(s)

SpecWindows == InitWindows /\ [][NextWindows]_vars

\* C40: every stored candidate has
\* 0 <= weeklyVisits <= monthlyVisits <= quarterlyVisits <= visitCount.
C40_WindowCountsOrdered ==
  \A id \in DOMAIN candidates :
    /\ 0 <= candidates[id].weeklyVisits
    /\ candidates[id].weeklyVisits <= candidates[id].monthlyVisits
    /\ candidates[id].monthlyVisits <= candidates[id].quarterlyVisits
    /\ candidates[id].quarterlyVisits <= candidates[id].visitCount

=============================================================================
